---- MODULE Spec2Model ----
(***************************************************************************)
(* Model of the Fusion 360 -> PyChrono interchange utilities:              *)
(*   utils.py            validate_json_export, convert_units,              *)
(*                       get_model_summary                                 *)
(*   pychrono_loader.py  load_model_from_json, create_body_from_data,      *)
(*                       create_joint_from_data                            *)
(*                                                                         *)
(* JSON values are tagged records [t |-> kind, v |-> payload]; a JSON      *)
(* object's payload is a function from its keys to JSON values, a list's   *)
(* payload a sequence.  Numbers are exact rationals [num, den] in lowest    *)
(* terms: 2.5 is 5/2 and x / 1000.0 is the rational x/1000.  The rounding  *)
(* of IEEE doubles is not modelled.                                        *)
(***************************************************************************)
EXTENDS Integers, Sequences, FiniteSets, TLC

VARIABLES
    json_path,   \* the path argument of the running call
    file,        \* what the file system holds at json_path
    pc,          \* position of the running call
    data,        \* the parsed document (json.load's result)
    result,      \* what the call returned or raised
    opens,       \* number of open() calls made by the running call
    value,       \* convert_units: the value argument
    from_unit,   \* convert_units: the from_unit argument
    to_unit,     \* convert_units: the to_unit argument
    converted,   \* outcome of convert_units(value, from_unit, to_unit)
    restored,    \* outcome of convert_units(converted, to_unit, from_unit)
    pychrono_available,  \* PYCHRONO_AVAILABLE: the import of pychrono succeeded
    system_bodies,       \* the bodies added to the ChSystem, in order
    system_links,        \* the links added to the ChSystem, in order
    body_map,            \* load_model_from_json: name -> body (index in system_bodies)
    bodies_done,         \* number of body records the body loop has consumed
    joints_done,         \* number of joint records the joint loop has consumed
    argv,        \* utils.py __main__: sys.argv
    exit_code,   \* utils.py __main__: exit status of the process, NoExit while running
    printed,     \* utils.py __main__: what the process printed, in order
    dialog_ok,   \* Fusion scripts: the save/folder dialog returns DialogOK
    messages,    \* Fusion scripts: the message boxes shown, in order
    selection,   \* CableExport: ui.activeSelections, the selected entities in order
    csv_writable,\* CableExport: open(filename, 'w') succeeds
    csv_lines,   \* CableExport: the lines written to the CSV file, in order
    count,       \* CableExport: the local variable count
    sel_done,    \* CableExport: number of selected entities the loop has consumed
    design,      \* ExportToPyChrono: the active design (root component, occurrences, joints)
    model_data,  \* ExportToPyChrono: the document under construction
    cursor,      \* ExportToPyChrono: position of the extraction loops
    output_file  \* ExportToPyChrono: the document written by export_to_json

fileVars == <<json_path, file, data, result, opens>>
convVars == <<value, from_unit, to_unit, converted, restored>>
loadVars == <<pychrono_available, system_bodies, system_links, body_map, bodies_done, joints_done>>
cliVars == <<argv, exit_code, printed>>
uiVars == <<dialog_ok, messages>>
cableVars == <<selection, csv_writable, csv_lines, count, sel_done>>
exportVars == <<design, model_data, cursor, output_file>>
toolVars == <<cliVars, uiVars, cableVars, exportVars>>
vars == <<pc, fileVars, convVars, loadVars, toolVars>>

(***************************************************************************)
(* JSON values and the Python operations the code applies to them          *)
(***************************************************************************)
Obj(r) == [t |-> "obj", v |-> r]
List(s) == [t |-> "list", v |-> s]
Str(s) == [t |-> "str", v |-> s]
Num(n) == [t |-> "num", v |-> n]
Bool(b) == [t |-> "bool", v |-> b]
Null == [t |-> "null", v |-> 0]
EmptyDict == Obj(<< >>)
NoValue == [t |-> "none", v |-> 0]

\* Exact rational arithmetic for Python's float operations.
Abs(n) == IF n < 0 THEN -n ELSE n

RECURSIVE GCD(_, _)
GCD(a, b) == IF b = 0 THEN a ELSE GCD(b, a % b)

\* n/d in lowest terms with a positive denominator (d # 0).
R(n, d) ==
    LET g == GCD(Abs(n), Abs(d))
        sgn == IF d < 0 THEN -1 ELSE 1
    IN  [num |-> sgn * (n \div g), den |-> sgn * (d \div g)]

Whole(n) == [num |-> n, den |-> 1]

\* a * b and a / b (b # 0), cancelling before multiplying.
RMul(a, b) ==
    LET g1 == GCD(Abs(a.num), b.den)
        g2 == GCD(Abs(b.num), a.den)
    IN  R((a.num \div g1) * (b.num \div g2), (a.den \div g2) * (b.den \div g1))

RDiv(a, b) == RMul(a, R(b.den, b.num))

RAdd(a, b) == R(a.num * b.den + b.num * a.den, a.den * b.den)

\* The characters of the strings that take part in a substring test.
Word(s) ==
    CASE s = "name" -> <<"n", "a", "m", "e">>
      [] s = "type" -> <<"t", "y", "p", "e">>
      [] s = "mass_properties" ->
            <<"m", "a", "s", "s", "_", "p", "r", "o", "p", "e", "r", "t", "i", "e", "s">>
      [] s = "model_name" -> <<"m", "o", "d", "e", "l", "_", "n", "a", "m", "e">>
      [] s = "bodies" -> <<"b", "o", "d", "i", "e", "s">>
      [] s = "joints" -> <<"j", "o", "i", "n", "t", "s">>
      [] s = "metadata" -> <<"m", "e", "t", "a", "d", "a", "t", "a">>
      [] s = "Revolute" -> <<"R", "e", "v", "o", "l", "u", "t", "e">>
      [] s = "Rigid" -> <<"R", "i", "g", "i", "d">>
      [] s = "Slider" -> <<"S", "l", "i", "d", "e", "r">>
      [] s = "JointType" -> <<"J", "o", "i", "n", "t", "T", "y", "p", "e">>
      [] s = "revolute" -> <<"r", "e", "v", "o", "l", "u", "t", "e">>
      [] s = "Ball" -> <<"B", "a", "l", "l">>
      [] s = "my " -> <<"m", "y", " ">>
      [] s = "A" -> <<"A">>
      [] s = "B" -> <<"B">>
      [] s = "C" -> <<"C">>

Spell(s) ==
    CASE s = "" -> << >>
      [] s = "RevoluteJointType" -> Word("Revolute") \o Word("JointType")
      [] s = "RigidJointType" -> Word("Rigid") \o Word("JointType")
      [] s = "SliderJointType" -> Word("Slider") \o Word("JointType")
      [] s = "BallJointType" -> Word("Ball") \o Word("JointType")
      [] s = "revoluteJointType" -> Word("revolute") \o Word("JointType")
      [] s = "SliderRigid" -> Word("Slider") \o Word("Rigid")
      [] s = "RigidRevolute" -> Word("Rigid") \o Word("Revolute")
      [] s = "my name" -> Word("my ") \o Word("name")
      [] OTHER -> Word(s)

\* Python's `needle in hay` on two strings.
Contains(hay, needle) ==
    \E i \in 0..(Len(hay) - Len(needle)) :
        SubSeq(hay, i + 1, i + Len(needle)) = needle

\* `k in x` raises TypeError unless x is a dict, a list or a string.
Iterable(x) == x.t \in {"obj", "list", "str"}

\* `k in x` for a string k: key of a dict, element of a list, substring of a
\* string.
In(k, x) ==
    CASE x.t = "obj" -> k \in DOMAIN x.v
      [] x.t = "list" -> \E i \in DOMAIN x.v : x.v[i].t = "str" /\ x.v[i].v = k
      [] x.t = "str" -> Contains(Spell(x.v), Spell(k))
      [] OTHER -> FALSE

\* d.get(k, default) on a dict d.
Get(d, k, default) == IF k \in DOMAIN d.v THEN d.v[k] ELSE default

\* Python truthiness of a JSON value.
Truthy(x) ==
    CASE x.t = "obj" -> DOMAIN x.v # {}
      [] x.t = "list" -> Len(x.v) > 0
      [] x.t = "str" -> x.v # ""
      [] x.t = "num" -> x.v.num # 0
      [] x.t = "bool" -> x.v
      [] OTHER -> FALSE

\* str() of a small index and of a JSON scalar, as an f-string formats it.
FmtInt(i) ==
    CASE i = 0 -> "0" [] i = 1 -> "1" [] i = 2 -> "2" [] i = 3 -> "3"
      [] i = 4 -> "4" [] OTHER -> "<int>"

Fmt(x) ==
    CASE x.t = "str" -> x.v
      [] x.t = "num" /\ x.v.den = 1 -> FmtInt(x.v.num)
      [] x.t = "null" -> "None"
      [] OTHER -> "<repr>"

\* Outcomes of a call or of a block of statements.
Ret(v) == [kind |-> "return", value |-> v]
Raise(e) == [kind |-> "raise", value |-> e]
Pass == [kind |-> "pass", value |-> "-"]
NoResult == [kind |-> "none", value |-> "-"]

\* Values of the variables of the operations that are not running.
FileIdle ==
    /\ json_path = "-"
    /\ file = [state |-> "missing", doc |-> NoValue]
    /\ data = NoValue
    /\ result = NoResult
    /\ opens = 0

ConvIdle ==
    /\ value = Whole(0)
    /\ from_unit = "-"
    /\ to_unit = "-"
    /\ converted = NoResult
    /\ restored = NoResult

LoadIdle ==
    /\ pychrono_available = FALSE
    /\ system_bodies = << >>
    /\ system_links = << >>
    /\ body_map = << >>
    /\ bodies_done = 0
    /\ joints_done = 0

(***************************************************************************)
(* utils.py: validate_json_export                                          *)
(***************************************************************************)
RequiredFields == <<"model_name", "bodies", "joints", "metadata">>

\* Mutant: the required fields are tested from the last one to the first.
RECURSIVE CheckRequiredFieldsReversed(_, _)
CheckRequiredFieldsReversed(d, n) ==
    LET f == RequiredFields[Len(RequiredFields) + 1 - n]
    IN  IF ~Iterable(d) THEN Raise("TypeError")
        ELSE IF ~In(f, d) THEN Ret(<<FALSE, <<"Missing required field: ", f>> >>)
        ELSE IF n = Len(RequiredFields) THEN Pass
        ELSE CheckRequiredFieldsReversed(d, n + 1)

\* The `for field in required_fields` loop, from the n-th field on.
RECURSIVE CheckRequiredFields(_, _)
CheckRequiredFields(d, n) ==
    IF n > Len(RequiredFields) THEN Pass
    ELSE IF ~Iterable(d) THEN Raise("TypeError")
    ELSE IF ~In(RequiredFields[n], d)
         THEN Ret(<<FALSE, <<"Missing required field: ", RequiredFields[n]>> >>)
    ELSE CheckRequiredFields(d, n + 1)

\* Mutant: a non-list value is reported as a missing field.
CheckIsListAsMissing(d, key) ==
    IF d.t # "obj" THEN Raise("TypeError")
    ELSE IF d.v[key].t # "list" THEN Ret(<<FALSE, <<"Missing required field: ", key>> >>)
    ELSE Pass

\* `isinstance(data[key], list)`; data[key] raises TypeError on a list or a
\* string that passed the membership tests.
CheckIsList(d, key) ==
    IF d.t # "obj" THEN Raise("TypeError")
    ELSE IF d.v[key].t # "list" THEN Ret(<<FALSE, <<key, " must be a list">> >>)
    ELSE Pass

\* Mutant: mass_properties is tested before name.
CheckBodyMassFirst(i, body) ==
    IF ~Iterable(body) THEN Raise("TypeError")
    ELSE IF ~In("mass_properties", body)
         THEN IF body.t # "obj" THEN Raise("TypeError")
              ELSE IF "name" \notin DOMAIN body.v THEN Raise("KeyError")
              ELSE Ret(<<FALSE, <<"Body ", Fmt(body.v.name), " missing 'mass_properties'">> >>)
    ELSE IF ~In("name", body)
         THEN Ret(<<FALSE, <<"Body ", FmtInt(i), " missing 'name' field">> >>)
    ELSE Pass

\* One iteration of `for i, body in enumerate(data['bodies'])`; i counts from 0.
CheckBody(i, body) ==
    IF ~Iterable(body) THEN Raise("TypeError")
    ELSE IF ~In("name", body)
         THEN Ret(<<FALSE, <<"Body ", FmtInt(i), " missing 'name' field">> >>)
    ELSE IF ~In("mass_properties", body)
         THEN IF body.t = "obj"
              THEN Ret(<<FALSE, <<"Body ", Fmt(body.v.name), " missing 'mass_properties'">> >>)
              ELSE Raise("TypeError")
    ELSE Pass

\* One iteration of `for i, joint in enumerate(data['joints'])`.
CheckJoint(i, joint) ==
    IF ~Iterable(joint) THEN Raise("TypeError")
    ELSE IF ~In("name", joint)
         THEN Ret(<<FALSE, <<"Joint ", FmtInt(i), " missing 'name' field">> >>)
    ELSE IF ~In("type", joint)
         THEN IF joint.t = "obj"
              THEN Ret(<<FALSE, <<"Joint ", Fmt(Get(joint, "name", Num(Whole(i)))),
                                  " missing 'type' field">> >>)
              ELSE Raise("AttributeError")
    ELSE Pass

RECURSIVE CheckBodies(_, _)
CheckBodies(bodies, i) ==
    IF i >= Len(bodies) THEN Pass
    ELSE LET r == CheckBody(i, bodies[i + 1])
         IN  IF r.kind # "pass" THEN r ELSE CheckBodies(bodies, i + 1)

RECURSIVE CheckJoints(_, _)
CheckJoints(joints, i) ==
    IF i >= Len(joints) THEN Pass
    ELSE LET r == CheckJoint(i, joints[i + 1])
         IN  IF r.kind # "pass" THEN r ELSE CheckJoints(joints, i + 1)

\* The body of the try block after json.load.
ValidateStructure(d) ==
    LET r1 == CheckRequiredFields(d, 1) IN
    IF r1.kind # "pass" THEN r1 ELSE
    LET r2 == CheckIsList(d, "bodies") IN
    IF r2.kind # "pass" THEN r2 ELSE
    LET r3 == CheckBodies(d.v.bodies.v, 0) IN
    IF r3.kind # "pass" THEN r3 ELSE
    LET r4 == CheckIsList(d, "joints") IN
    IF r4.kind # "pass" THEN r4 ELSE
    LET r5 == CheckJoints(d.v.joints.v, 0) IN
    IF r5.kind # "pass" THEN r5 ELSE
    Ret(<<TRUE, <<"Valid">> >>)

\* Mutant: no catch-all clause, so other exceptions leave the function.
ValidateHandlersNoCatchAll(out, path) ==
    IF out.kind # "raise" THEN out
    ELSE CASE out.value = "JSONDecodeError" ->
                Ret(<<FALSE, <<"JSON parsing error: ", "<detail>">> >>)
           [] out.value = "FileNotFoundError" ->
                Ret(<<FALSE, <<"File not found: ", path>> >>)
           [] OTHER -> out

\* The except clauses: every exception becomes a (False, message) tuple.
ValidateHandlers(out, path) ==
    IF out.kind # "raise" THEN out
    ELSE CASE out.value = "JSONDecodeError" ->
                Ret(<<FALSE, <<"JSON parsing error: ", "<detail>">> >>)
           [] out.value = "FileNotFoundError" ->
                Ret(<<FALSE, <<"File not found: ", path>> >>)
           [] OTHER ->
                Ret(<<FALSE, <<"Validation error: ", out.value>> >>)

\* open(json_path, 'r')
OpenOutcome(f) ==
    CASE f.state = "missing" -> Raise("FileNotFoundError")
      [] f.state = "unreadable" -> Raise("PermissionError")
      [] OTHER -> Pass

\* json.load(f)
JsonLoadOutcome(f) ==
    IF f.state = "malformed" THEN Raise("JSONDecodeError") ELSE Ret(f.doc)

ValidateOpen ==
    /\ pc = "validate"
    /\ opens' = opens + 1
    /\ LET o == OpenOutcome(file)
       IN  IF o.kind = "raise"
           THEN /\ result' = ValidateHandlers(o, json_path)
                /\ pc' = "done"
           ELSE /\ result' = result
                /\ pc' = "validate_load"
    /\ UNCHANGED <<json_path, file, data, convVars, toolVars, loadVars>>

ValidateLoad ==
    /\ pc = "validate_load"
    /\ LET o == JsonLoadOutcome(file)
       IN  IF o.kind = "raise"
           THEN /\ result' = ValidateHandlers(o, json_path)
                /\ pc' = "done"
                /\ data' = data
           ELSE /\ data' = o.value
                /\ pc' = "validate_check"
                /\ result' = result
    /\ UNCHANGED <<json_path, file, opens, convVars, toolVars, loadVars>>

ValidateCheck ==
    /\ pc = "validate_check"
    /\ result' = ValidateHandlers(ValidateStructure(data), json_path)
    /\ pc' = "done"
    /\ UNCHANGED <<json_path, file, data, opens, convVars, toolVars, loadVars>>

(***************************************************************************)
(* Inputs of the validator                                                 *)
(***************************************************************************)
MaxItems == 2

NoExit == -1

CliIdle ==
    /\ argv = << >>
    /\ exit_code = NoExit
    /\ printed = << >>

UiIdle ==
    /\ dialog_ok = FALSE
    /\ messages = << >>

CableIdle ==
    /\ selection = << >>
    /\ csv_writable = FALSE
    /\ csv_lines = << >>
    /\ count = 0
    /\ sel_done = 0

ExportIdle ==
    /\ design = NoValue
    /\ model_data = NoValue
    /\ cursor = <<0, 0>>
    /\ output_file = NoValue

ToolIdle == CliIdle /\ UiIdle /\ CableIdle /\ ExportIdle

Paths == {"model_pychrono.json", "other.json"}

SeqsUpTo(S, n) == UNION {[1..k -> S] : k \in 0..n}

BodyElems ==
    { Obj(<< >>),
      Obj([name |-> Str("A")]),
      Obj([mass_properties |-> EmptyDict]),
      Obj([name |-> Str("A"), mass_properties |-> EmptyDict]),
      Obj([name |-> Str("B"), mass_properties |-> Obj([mass |-> Num(R(5, 2))])]),
      List(<<Str("name"), Str("mass_properties")>>),
      List(<<Str("name")>>),
      Str("my name"),
      Num(Whole(5)) }

JointElems ==
    { Obj(<< >>),
      Obj([name |-> Str("J")]),
      Obj([type |-> Str("RevoluteJointType")]),
      Obj([name |-> Str("J"), type |-> Str("RevoluteJointType")]),
      List(<<Str("name")>>),
      Null }

BodiesValues == {List(s) : s \in SeqsUpTo(BodyElems, MaxItems)} \cup {EmptyDict, Null}

JointsValues == {List(s) : s \in SeqsUpTo(JointElems, MaxItems)} \cup {Str("joints")}

\* A document object with the keys K.
Document(K, b, j) ==
    Obj([k \in K |-> CASE k = "model_name" -> Str("model")
                       [] k = "bodies" -> b
                       [] k = "joints" -> j
                       [] k = "metadata" -> EmptyDict])

FieldSet == {RequiredFields[n] : n \in 1..Len(RequiredFields)}

OtherDocuments ==
    { Null, Num(Whole(5)), List(<<Str("model_name")>>),
      List(<<Str("model_name"), Str("bodies"), Str("joints"), Str("metadata")>>) }

NoDoc == NoValue

\* The file at json_path: absent, unreadable, not JSON, or JSON text that
\* parses to a document.
InitFile ==
    \/ \E s \in {"missing", "unreadable", "malformed"} :
          file = [state |-> s, doc |-> NoDoc]
    \/ \E d \in OtherDocuments : file = [state |-> "parsed", doc |-> d]
    \/ \E K \in SUBSET FieldSet :
          \E b \in (IF "bodies" \in K THEN BodiesValues ELSE {Null}),
             j \in (IF "joints" \in K THEN JointsValues ELSE {Null}) :
                file = [state |-> "parsed", doc |-> Document(K, b, j)]

InitValidate ==
    /\ json_path \in Paths
    /\ InitFile
    /\ pc = "validate"
    /\ data = NoDoc
    /\ result = NoResult
    /\ opens = 0
    /\ ConvIdle
    /\ LoadIdle
    /\ ToolIdle

NextValidate == ValidateOpen \/ ValidateLoad \/ ValidateCheck

SpecValidate == InitValidate /\ [][NextValidate]_vars

(***************************************************************************)
(* Properties of validate_json_export                                      *)
(***************************************************************************)
Returned == pc = "done" /\ result.kind = "return"

ParsedObject == file.state = "parsed" /\ file.doc.t = "obj"

Keys(d) == DOMAIN d.v

\* C1: a parsed document object that lacks a required top-level key is
\* rejected with "Missing required field: f", f being the first absent key in
\* the order model_name, bodies, joints, metadata, whatever the values of the
\* keys that are present.
C1_FirstMissingFieldNamed ==
    LET order == <<"model_name", "bodies", "joints", "metadata">>
        absent == {n \in 1..4 : order[n] \notin Keys(file.doc)}
    IN  (pc = "done" /\ ParsedObject /\ absent # {}) =>
            \E n \in absent :
                /\ \A m \in absent : n <= m
                /\ result.kind = "return"
                /\ result.value[1] = FALSE
                /\ result.value[2] = <<"Missing required field: ", order[n]>>

\* The call returned for a document without `bodies` whose `joints` value is
\* not a list: the message names bodies.
C1_Witness ==
    /\ pc = "done" /\ ParsedObject
    /\ Keys(file.doc) = {"model_name", "joints"}
    /\ file.doc.v.joints.t = "str"
    /\ result.kind = "return"
    /\ result.value[2] = <<"Missing required field: ", "bodies">>

HasAllFields(d) == {"model_name", "bodies", "joints", "metadata"} \subseteq Keys(d)

MissingFieldMessages ==
    { <<"Missing required field: ", f>> :
        f \in {"model_name", "bodies", "joints", "metadata"} }

\* A list of records that each carry the two keys.
RecordsWith(x, k1, k2) ==
    /\ x.t = "list"
    /\ \A i \in DOMAIN x.v : x.v[i].t = "obj" /\ {k1, k2} \subseteq DOMAIN x.v[i].v

\* C2: with all four keys present, a non-list `bodies` value is rejected with
\* "bodies must be a list", and a non-list `joints` value after valid bodies
\* with "joints must be a list"; neither is a missing-field message.
C2_NotAListMessage ==
    (pc = "done" /\ ParsedObject /\ HasAllFields(file.doc)) =>
        /\ file.doc.v.bodies.t # "list" =>
              /\ result.kind = "return"
              /\ result.value[1] = FALSE
              /\ result.value[2] = <<"bodies", " must be a list">>
              /\ result.value[2] \notin MissingFieldMessages
        /\ (RecordsWith(file.doc.v.bodies, "name", "mass_properties")
              /\ file.doc.v.joints.t # "list") =>
              /\ result.kind = "return"
              /\ result.value[1] = FALSE
              /\ result.value[2] = <<"joints", " must be a list">>
              /\ result.value[2] \notin MissingFieldMessages

\* The call returned for a document whose bodies value is an object and whose
\* joints value is a string.
C2_Witness ==
    /\ pc = "done" /\ ParsedObject /\ HasAllFields(file.doc)
    /\ file.doc.v.bodies.t = "obj"
    /\ file.doc.v.joints.t = "str"
    /\ result.kind = "return"
    /\ result.value[2] = <<"bodies", " must be a list">>

\* The documents of the data model: an object whose bodies and joints lists,
\* where present as lists, hold records (JSON objects).
AllObjects(x) == x.t = "list" => \A i \in DOMAIN x.v : x.v[i].t = "obj"

RecordDocument(d) ==
    /\ d.t = "obj"
    /\ "bodies" \in Keys(d) => AllObjects(d.v.bodies)
    /\ "joints" \in Keys(d) => AllObjects(d.v.joints)

\* Every violation of a record document with its place in the check order:
\* fields 1..4, then bodies (list type 10; body i name 20+2i, mass_properties
\* 21+2i), then joints (list type 50; joint i name 60+2i, type 61+2i).
ItemViolations(items, base, what, k2, text2) ==
    { [rank |-> base + 2 * (i - 1),
       reason |-> <<what, FmtInt(i - 1), " missing 'name' field">>] :
         i \in {i \in DOMAIN items : "name" \notin DOMAIN items[i].v} }
    \cup
    { [rank |-> base + 2 * (i - 1) + 1,
       reason |-> <<what, Fmt(items[i].v.name), text2>>] :
         i \in {i \in DOMAIN items :
                  "name" \in DOMAIN items[i].v /\ k2 \notin DOMAIN items[i].v} }

Violations(d) ==
    LET order == <<"model_name", "bodies", "joints", "metadata">>
        listOf(k) == k \in Keys(d) /\ d.v[k].t = "list"
    IN  { [rank |-> n, reason |-> <<"Missing required field: ", order[n]>>] :
            n \in {n \in 1..4 : order[n] \notin Keys(d)} }
        \cup (IF "bodies" \in Keys(d) /\ d.v.bodies.t # "list"
              THEN {[rank |-> 10, reason |-> <<"bodies", " must be a list">>]} ELSE {})
        \cup (IF listOf("bodies")
              THEN ItemViolations(d.v.bodies.v, 20, "Body ", "mass_properties",
                                  " missing 'mass_properties'")
              ELSE {})
        \cup (IF "joints" \in Keys(d) /\ d.v.joints.t # "list"
              THEN {[rank |-> 50, reason |-> <<"joints", " must be a list">>]} ELSE {})
        \cup (IF listOf("joints")
              THEN ItemViolations(d.v.joints.v, 60, "Joint ", "type",
                                  " missing 'type' field")
              ELSE {})

\* C3: the validator fails fast.  For a record document the reason returned
\* is that of the violation that comes first in the check order, and the
\* answer is (True, "Valid") exactly when there is no violation.
C3_FirstViolationReported ==
    (pc = "done" /\ file.state = "parsed" /\ RecordDocument(file.doc)) =>
        LET V == Violations(file.doc)
        IN  /\ result.kind = "return"
            /\ V = {} => result.value = <<TRUE, <<"Valid">> >>
            /\ V # {} =>
                 \E first \in V :
                    /\ \A w \in V : first.rank <= w.rank
                    /\ result.value = <<FALSE, first.reason>>

\* The call returned for a document with three violations (the second body
\* has no name, the joints value is no list, the first body has no
\* mass_properties): the reason is the first body's.
C3_Witness ==
    /\ pc = "done" /\ file.state = "parsed" /\ RecordDocument(file.doc)
    /\ HasAllFields(file.doc)
    /\ file.doc.v.bodies.t = "list" /\ Len(file.doc.v.bodies.v) = 2
    /\ DOMAIN file.doc.v.bodies.v[1].v = {"name"}
    /\ DOMAIN file.doc.v.bodies.v[2].v = {}
    /\ file.doc.v.joints.t # "list"
    /\ Cardinality(Violations(file.doc)) = 3
    /\ result.kind = "return"
    /\ result.value = <<FALSE, <<"Body ", "A", " missing 'mass_properties'">> >>

StructuralPrefixes ==
    {"Missing required field: ", "bodies", "joints", "Body ", "Joint ",
     "Validation error: "}

\* C4: validate_json_export never raises.  A missing file, malformed JSON
\* text and a structural violation each end the call with (False, message),
\* the messages "File not found: <path>", "JSON parsing error: ..." and a
\* structural message being pairwise distinct, after a single open().
C4_NeverRaises ==
    pc = "done" =>
        /\ result.kind = "return"
        /\ result.value[1] \in BOOLEAN
        /\ opens = 1
        /\ file.state = "missing" =>
              result.value = <<FALSE, <<"File not found: ", json_path>> >>
        /\ file.state = "malformed" =>
              /\ result.value[1] = FALSE
              /\ result.value[2][1] = "JSON parsing error: "
        /\ (file.state = "parsed" /\ result.value[1] = FALSE) =>
              /\ result.value[2][1] \in StructuralPrefixes
              /\ result.value[2][1] \notin {"File not found: ", "JSON parsing error: "}
        /\ (file.state = "parsed" /\ result.value[1] = TRUE) =>
              result.value[2] = <<"Valid">>

\* The call ended on a TypeError raised inside the checks (a body that is a
\* number) and still returned a tuple.
C4_Witness ==
    /\ pc = "done" /\ ParsedObject /\ HasAllFields(file.doc)
    /\ file.doc.v.bodies.t = "list" /\ Len(file.doc.v.bodies.v) = 1
    /\ file.doc.v.bodies.v[1].t = "num"
    /\ result = Ret(<<FALSE, <<"Validation error: ", "TypeError">> >>)

(***************************************************************************)
(* utils.py: convert_units                                                 *)
(***************************************************************************)
\* Conversion factors to meters: 0.001, 0.01, 1.0, 0.0254, 0.3048.
to_meters ==
    ("mm" :> R(1, 1000)) @@ ("cm" :> R(1, 100)) @@ ("m" :> Whole(1))
    @@ ("in" :> R(254, 10000)) @@ ("ft" :> R(3048, 10000))

\* Mutant: the value in meters is multiplied by the target factor.
convert_units_multiplied(v, from, to) ==
    IF from \notin DOMAIN to_meters \/ to \notin DOMAIN to_meters
    THEN Raise("ValueError")
    ELSE Ret(RMul(RMul(v, to_meters[from]), to_meters[to]))

\* Mutant: the guard tests `and`, so one unsupported unit reaches the lookup.
convert_units_and_guard(v, from, to) ==
    IF from \notin DOMAIN to_meters /\ to \notin DOMAIN to_meters
    THEN Raise("ValueError")
    ELSE IF from \notin DOMAIN to_meters \/ to \notin DOMAIN to_meters
    THEN Raise("KeyError")
    ELSE Ret(RDiv(RMul(v, to_meters[from]), to_meters[to]))

convert_units(v, from, to) ==
    IF from \notin DOMAIN to_meters \/ to \notin DOMAIN to_meters
    THEN Raise("ValueError")
    ELSE LET value_in_meters == RMul(v, to_meters[from])
         IN  Ret(RDiv(value_in_meters, to_meters[to]))

\* The first call, convert_units(value, from_unit, to_unit).
Convert ==
    /\ pc = "convert"
    /\ converted' = convert_units(value, from_unit, to_unit)
    /\ pc' = IF converted'.kind = "return" THEN "convert_back" ELSE "done"
    /\ UNCHANGED <<fileVars, loadVars, toolVars, value, from_unit, to_unit, restored>>

\* The inverse call on the first call's result.
ConvertBack ==
    /\ pc = "convert_back"
    /\ restored' = convert_units(converted.value, to_unit, from_unit)
    /\ pc' = "done"
    /\ UNCHANGED <<fileVars, loadVars, toolVars, value, from_unit, to_unit, converted>>

MaxNum == 3

Values == {R(n, d) : n \in -MaxNum..MaxNum, d \in {1, 2}}

UnitNames == {"mm", "cm", "m", "in", "ft", "km", "MM", ""}

InitConvert ==
    /\ pc = "convert"
    /\ value \in Values
    /\ from_unit \in UnitNames
    /\ to_unit \in UnitNames
    /\ converted = NoResult
    /\ restored = NoResult
    /\ FileIdle
    /\ LoadIdle
    /\ ToolIdle

NextConvert == Convert \/ ConvertBack

SpecConvert == InitConvert /\ [][NextConvert]_vars

SupportedUnits == {"mm", "cm", "m", "in", "ft"}

\* Meters per unit in ten-thousandths: 0.001, 0.01, 1.0, 0.0254, 0.3048.
Factor(u) ==
    CASE u = "mm" -> 10 [] u = "cm" -> 100 [] u = "m" -> 10000
      [] u = "in" -> 254 [] u = "ft" -> 3048

\* C5: for supported units A and B, convert_units(x, A, B) is x times the
\* factor of A divided by the factor of B, and converting the result back
\* from B to A gives x again.
C5_RoundTrip ==
    /\ (converted.kind = "return") =>
          converted.value.num * Factor(to_unit) * value.den
             = value.num * Factor(from_unit) * converted.value.den
    /\ (from_unit \in SupportedUnits /\ to_unit \in SupportedUnits /\ pc = "done") =>
          /\ converted.kind = "return"
          /\ restored.kind = "return"
          /\ restored.value = value

\* 1.5 in converted to ft and back: 1.5 * 0.0254 / 0.3048 = 0.125 ft.
C5_Witness ==
    /\ pc = "done"
    /\ from_unit = "in" /\ to_unit = "ft" /\ value = R(3, 2)
    /\ converted = Ret(R(1, 8))
    /\ restored = Ret(R(3, 2))

\* C6: convert_units raises ValueError, and returns nothing, exactly when
\* from_unit or to_unit is outside {mm, cm, m, in, ft}.
C6_UnsupportedUnitRaises ==
    (pc # "convert") =>
        /\ (from_unit \notin SupportedUnits \/ to_unit \notin SupportedUnits) =>
              converted = Raise("ValueError") /\ pc = "done" /\ restored = NoResult
        /\ (from_unit \in SupportedUnits /\ to_unit \in SupportedUnits) =>
              converted.kind = "return"

\* A supported source unit with an unsupported target unit raised.
C6_Witness ==
    /\ pc = "done"
    /\ from_unit = "mm" /\ to_unit = "km"
    /\ converted = Raise("ValueError")

(***************************************************************************)
(* utils.py: get_model_summary                                             *)
(***************************************************************************)
\* Some enumeration of a finite set (the iteration order of a dict's keys).
SeqOf(S) ==
    CHOOSE f \in [1..Cardinality(S) -> S] : \A x \in S : \E i \in DOMAIN f : f[i] = x

\* len(x); raises TypeError unless x is a list, a dict or a string.
PyLen(x) ==
    CASE x.t = "list" -> Len(x.v)
      [] x.t = "obj" -> Cardinality(DOMAIN x.v)
      [] x.t = "str" -> Len(Spell(x.v))

\* The elements `for item in x` visits: a dict yields its keys, a string its
\* characters.
Items(x) ==
    CASE x.t = "list" -> x.v
      [] x.t = "obj" -> [i \in 1..Cardinality(DOMAIN x.v) |-> Str(SeqOf(DOMAIN x.v)[i])]
      [] x.t = "str" -> [i \in 1..Len(Spell(x.v)) |-> Str(Spell(x.v)[i])]

\* x[k] for a string k.
Subscript(x, k) ==
    IF x.t # "obj" THEN Raise("TypeError")
    ELSE IF k \notin DOMAIN x.v THEN Raise("KeyError")
    ELSE Ret(x.v[k])

\* [item['name'] for item in items], from the i-th item on.
RECURSIVE NamesOf(_, _)
NamesOf(items, i) ==
    IF i > Len(items) THEN Ret(<< >>)
    ELSE LET n == Subscript(items[i], "name")
         IN  IF n.kind = "raise" THEN n
             ELSE LET rest == NamesOf(items, i + 1)
                  IN  IF rest.kind = "raise" THEN rest
                      ELSE Ret(<<n.value>> \o rest.value)

\* Mutant: a body without a mass counts as 1.0, the loader's default.
RECURSIVE SumMassesDefaultOne(_, _, _)
SumMassesDefaultOne(items, i, acc) ==
    IF i > Len(items) THEN Ret(acc)
    ELSE IF items[i].t # "obj" THEN Raise("AttributeError")
    ELSE LET mp == Get(items[i], "mass_properties", EmptyDict)
         IN  IF mp.t # "obj" THEN Raise("AttributeError")
             ELSE LET m == Get(mp, "mass", Num(Whole(1)))
                  IN  IF m.t # "num" THEN Raise("TypeError")
                      ELSE SumMassesDefaultOne(items, i + 1, RAdd(acc, m.v))

\* sum(body.get('mass_properties', {}).get('mass', 0) for body in items),
\* from the i-th item on, acc being the sum so far.
RECURSIVE SumMasses(_, _, _)
SumMasses(items, i, acc) ==
    IF i > Len(items) THEN Ret(acc)
    ELSE IF items[i].t # "obj" THEN Raise("AttributeError")
    ELSE LET mp == Get(items[i], "mass_properties", EmptyDict)
         IN  IF mp.t # "obj" THEN Raise("AttributeError")
             ELSE LET m == Get(mp, "mass", Num(Whole(0)))
                  IN  IF m.t # "num" THEN Raise("TypeError")
                      ELSE SumMasses(items, i + 1, RAdd(acc, m.v))

\* The body of the try block after json.load, in evaluation order.
SummaryBody(d) ==
    IF d.t # "obj" THEN Raise("AttributeError") ELSE
    LET bodies == Get(d, "bodies", List(<< >>))
        joints == Get(d, "joints", List(<< >>))
        metadata == Get(d, "metadata", EmptyDict)
    IN  IF ~Iterable(bodies) \/ ~Iterable(joints) THEN Raise("TypeError")
        ELSE IF metadata.t # "obj" THEN Raise("AttributeError")
        ELSE LET bn == NamesOf(Items(bodies), 1) IN
             IF bn.kind = "raise" THEN bn ELSE
             LET jn == NamesOf(Items(joints), 1) IN
             IF jn.kind = "raise" THEN jn ELSE
             LET total == SumMasses(Items(bodies), 1, Whole(0)) IN
             IF total.kind = "raise" THEN total ELSE
             Ret([model_name |-> Get(d, "model_name", Str("Unknown")),
                  num_bodies |-> PyLen(bodies),
                  num_joints |-> PyLen(joints),
                  units |-> Get(metadata, "units", Str("unknown")),
                  bodies |-> bn.value,
                  joints |-> jn.value,
                  total_mass |-> total.value])

\* except Exception as e: return {'error': str(e)}
SummaryHandler(out) ==
    IF out.kind = "raise" THEN Ret([error |-> out.value]) ELSE out

SummaryOpen ==
    /\ pc = "summary"
    /\ opens' = opens + 1
    /\ LET o == OpenOutcome(file)
       IN  IF o.kind = "raise"
           THEN result' = SummaryHandler(o) /\ pc' = "done"
           ELSE result' = result /\ pc' = "summary_load"
    /\ UNCHANGED <<json_path, file, data, convVars, toolVars, loadVars>>

SummaryLoad ==
    /\ pc = "summary_load"
    /\ LET o == JsonLoadOutcome(file)
       IN  IF o.kind = "raise"
           THEN result' = SummaryHandler(o) /\ pc' = "done" /\ data' = data
           ELSE data' = o.value /\ pc' = "summary_build" /\ result' = result
    /\ UNCHANGED <<json_path, file, opens, convVars, toolVars, loadVars>>

SummaryBuild ==
    /\ pc = "summary_build"
    /\ result' = SummaryHandler(SummaryBody(data))
    /\ pc' = "done"
    /\ UNCHANGED <<json_path, file, data, opens, convVars, toolVars, loadVars>>

SummaryBodies ==
    { Obj([name |-> Str("A"), mass_properties |-> Obj([mass |-> Num(R(5, 2))])]),
      Obj([name |-> Str("B"), mass_properties |-> Obj([mass |-> Num(R(7, 2))])]),
      Obj([name |-> Str("C")]),
      Obj([name |-> Str("A"), mass_properties |-> EmptyDict]),
      Obj([mass_properties |-> Obj([mass |-> Num(Whole(1))])]),
      Obj([name |-> Str("B"), mass_properties |-> Null]),
      Obj([name |-> Str("C"), mass_properties |-> Obj([mass |-> Str("heavy")])]),
      Num(Whole(5)) }

SummaryJoints == { Obj([name |-> Str("J")]), Obj([type |-> Str("RigidJointType")]) }

InitSummaryFile ==
    \/ \E s \in {"missing", "unreadable", "malformed"} :
          file = [state |-> s, doc |-> NoDoc]
    \/ \E d \in OtherDocuments : file = [state |-> "parsed", doc |-> d]
    \/ \E K \in SUBSET FieldSet :
          \E b \in (IF "bodies" \in K
                    THEN {List(q) : q \in SeqsUpTo(SummaryBodies, MaxItems)}
                         \cup {EmptyDict, Null, Obj([a |-> Null])}
                    ELSE {Null}),
             j \in (IF "joints" \in K
                    THEN {List(q) : q \in SeqsUpTo(SummaryJoints, MaxItems)} \cup {Null}
                    ELSE {Null}) :
                file = [state |-> "parsed", doc |-> Document(K, b, j)]

InitSummary ==
    /\ json_path \in Paths
    /\ InitSummaryFile
    /\ pc = "summary"
    /\ data = NoDoc
    /\ result = NoResult
    /\ opens = 0
    /\ ConvIdle
    /\ LoadIdle
    /\ ToolIdle

NextSummary == SummaryOpen \/ SummaryLoad \/ SummaryBuild

SpecSummary == InitSummary /\ [][NextSummary]_vars

\* The mass a body record states, 0 when it states none.
StatedMass(body) ==
    IF "mass_properties" \in DOMAIN body.v /\ "mass" \in DOMAIN body.v.mass_properties.v
    THEN body.v.mass_properties.v.mass.v
    ELSE Whole(0)

RECURSIVE TotalOfFirst(_, _)
TotalOfFirst(bodies, n) ==
    IF n = 0 THEN Whole(0) ELSE RAdd(TotalOfFirst(bodies, n - 1), StatedMass(bodies[n]))

\* A list of body records: named objects whose mass_properties, if any, is an
\* object whose mass, if any, is a number.
BodyRecords(x) ==
    /\ x.t = "list"
    /\ \A i \in DOMAIN x.v :
          /\ x.v[i].t = "obj"
          /\ "name" \in DOMAIN x.v[i].v
          /\ "mass_properties" \in DOMAIN x.v[i].v =>
                /\ x.v[i].v.mass_properties.t = "obj"
                /\ "mass" \in DOMAIN x.v[i].v.mass_properties.v =>
                      x.v[i].v.mass_properties.v.mass.t = "num"

NamedRecords(x) ==
    x.t = "list" /\ \A i \in DOMAIN x.v : x.v[i].t = "obj" /\ "name" \in DOMAIN x.v[i].v

\* C10: get_model_summary never raises; a file that cannot be read or parsed
\* gives a dict with an 'error' key; for a document with lists of body and
\* joint records it reports num_bodies and num_joints as the lengths of the
\* lists and total_mass as the sum of the stated masses, a body without a
\* mass counting 0.
C10_SummaryTotals ==
    pc = "done" =>
        /\ result.kind = "return"
        /\ file.state # "parsed" => DOMAIN result.value = {"error"}
        /\ (ParsedObject /\ HasAllFields(file.doc)
               /\ BodyRecords(file.doc.v.bodies) /\ NamedRecords(file.doc.v.joints)) =>
              /\ "error" \notin DOMAIN result.value
              /\ result.value.num_bodies = Len(file.doc.v.bodies.v)
              /\ result.value.num_joints = Len(file.doc.v.joints.v)
              /\ result.value.total_mass
                    = TotalOfFirst(file.doc.v.bodies.v, Len(file.doc.v.bodies.v))
        /\ (ParsedObject /\ HasAllFields(file.doc) /\ file.doc.v.bodies.t = "list"
               /\ "error" \notin DOMAIN result.value) =>
              BodyRecords(file.doc.v.bodies)

\* Two bodies of mass 2.5 and 3.5 were summarised: total_mass is 6.0.
C10_Witness ==
    /\ pc = "done" /\ ParsedObject /\ HasAllFields(file.doc)
    /\ BodyRecords(file.doc.v.bodies)
    /\ Len(file.doc.v.bodies.v) = 2
    /\ StatedMass(file.doc.v.bodies.v[1]) = R(5, 2)
    /\ StatedMass(file.doc.v.bodies.v[2]) = R(7, 2)
    /\ "error" \notin DOMAIN result.value
    /\ result.value.total_mass = Whole(6)
    /\ result.value.num_bodies = 2

(***************************************************************************)
(* pychrono_loader.py: load_model_from_json                                *)
(***************************************************************************)
\* chrono.ChBody(): a body as the engine constructs it (unit mass, unit
\* inertia diagonal, at the origin, neither fixed nor colliding).
ChBody ==
    [name |-> Str(""), mass |-> Whole(1),
     pos |-> <<Whole(0), Whole(0), Whole(0)>>,
     inertia |-> <<Whole(1), Whole(1), Whole(1)>>,
     fixed |-> FALSE, collide |-> FALSE]

\* d.get(k, 0) / 1000.0
Div1000(d, k) == RDiv(Get(d, k, Num(Whole(0))).v, Whole(1000))

\* chrono.ChVectorD(d.get('x', 0) / 1000.0, d.get('y', 0) / 1000.0, d.get('z', 0) / 1000.0)
MetersVector(d) == <<Div1000(d, "x"), Div1000(d, "y"), Div1000(d, "z")>>

\* Mutant: a missing mass defaults to 0 and a missing inertia axis to 0.
SetMassPropertiesDefaultZero(body, mass_props) ==
    IF ~Truthy(mass_props) THEN body
    ELSE LET com == Get(mass_props, "center_of_mass", EmptyDict)
             inertia == Get(mass_props, "moments_of_inertia", EmptyDict)
             b1 == [body EXCEPT !.mass = Get(mass_props, "mass", Num(Whole(0))).v]
             b2 == IF Truthy(com) THEN [b1 EXCEPT !.pos = MetersVector(com)] ELSE b1
         IN  IF Truthy(inertia)
             THEN [b2 EXCEPT !.inertia = <<Get(inertia, "xx", Num(Whole(0))).v,
                                           Get(inertia, "yy", Num(Whole(0))).v,
                                           Get(inertia, "zz", Num(Whole(0))).v>>]
             ELSE b2

\* `if mass_props:` SetMass, SetPos from center_of_mass, SetInertiaXX.
SetMassProperties(body, mass_props) ==
    IF ~Truthy(mass_props) THEN body
    ELSE LET com == Get(mass_props, "center_of_mass", EmptyDict)
             inertia == Get(mass_props, "moments_of_inertia", EmptyDict)
             b1 == [body EXCEPT !.mass = Get(mass_props, "mass", Num(Whole(1))).v]
             b2 == IF Truthy(com) THEN [b1 EXCEPT !.pos = MetersVector(com)] ELSE b1
         IN  IF Truthy(inertia)
             THEN [b2 EXCEPT !.inertia = <<Get(inertia, "xx", Num(Whole(1))).v,
                                           Get(inertia, "yy", Num(Whole(1))).v,
                                           Get(inertia, "zz", Num(Whole(1))).v>>]
             ELSE b2

\* `if transform:` ... `if translation:` SetPos.
ApplyTransform(body, transform) ==
    IF ~Truthy(transform) THEN body
    ELSE LET translation == Get(transform, "translation", EmptyDict)
         IN  IF Truthy(translation)
             THEN [body EXCEPT !.pos = MetersVector(translation)]
             ELSE body

\* The mesh files present in geometry_dir (os.path.exists).
ExistingGeometry == {"B.stl"}

\* `if geom_file:` ... `if os.path.exists(stl_path):` enable collision and
\* attach the collision and visual shapes.
LoadGeometry(body, geom_file) ==
    IF Truthy(geom_file) /\ geom_file.v \in ExistingGeometry
    THEN [body EXCEPT !.collide = TRUE]
    ELSE body

\* `if body_data.get('is_fixed', False):` SetBodyFixed(True)
SetFixed(body, is_fixed) ==
    IF Truthy(is_fixed) THEN [body EXCEPT !.fixed = TRUE] ELSE body

\* create_body_from_data, up to system.Add(body): the body it builds, or the
\* exception body_data['name'] raises.
create_body_from_data(body_data) ==
    IF body_data.t # "obj" THEN Raise("TypeError")
    ELSE IF "name" \notin DOMAIN body_data.v THEN Raise("KeyError")
    ELSE LET b0 == [ChBody EXCEPT !.name = body_data.v.name]
             b1 == SetMassProperties(b0, Get(body_data, "mass_properties", EmptyDict))
             b2 == ApplyTransform(b1, Get(body_data, "transform", EmptyDict))
             b3 == LoadGeometry(b2, Get(body_data, "geometry_file", Null))
         IN  Ret(SetFixed(b3, Get(body_data, "is_fixed", Bool(FALSE))))

\* Mutant: a joint is dropped only when both bodies fail to resolve; an
\* unresolved body is passed on as the null body 0.
ResolveBodiesBothMissing(joint_data, bmap) ==
    LET n1 == Get(joint_data, "body_one", Null)
        n2 == Get(joint_data, "body_two", Null)
        e1 == IF n1 \in DOMAIN bmap THEN bmap[n1] ELSE 0
        e2 == IF n2 \in DOMAIN bmap THEN bmap[n2] ELSE 0
    IN  [found |-> e1 # 0 \/ e2 # 0, one |-> e1, two |-> e2]

\* Lines 194-204: the two bodies of a joint record, found only if both names
\* are truthy and both are keys of body_map.
ResolveBodies(joint_data, bmap) ==
    LET n1 == Get(joint_data, "body_one", Null)
        n2 == Get(joint_data, "body_two", Null)
    IN  IF ~Truthy(n1) \/ ~Truthy(n2) THEN [found |-> FALSE, one |-> 0, two |-> 0]
        ELSE IF n1 \notin DOMAIN bmap \/ n2 \notin DOMAIN bmap
        THEN [found |-> FALSE, one |-> 0, two |-> 0]
        ELSE [found |-> TRUE, one |-> bmap[n1], two |-> bmap[n2]]

\* Mutant: the origin is used as it stands, in millimeters.
OriginPosUnscaled(joint_data) ==
    LET origin == Get(joint_data, "origin", EmptyDict)
    IN  <<Get(origin, "x", Num(Whole(0))).v, Get(origin, "y", Num(Whole(0))).v,
          Get(origin, "z", Num(Whole(0))).v>>

\* Lines 207-212: origin_pos.
OriginPos(joint_data) == MetersVector(Get(joint_data, "origin", EmptyDict))

\* Lines 215-230: the link class chosen for a type string, "None" when no
\* test matches.
\* Mutant: the Slider test comes before the Rigid test.
JointClassSliderFirst(joint_type) ==
    IF In("Revolute", joint_type) \/ In("RevoluteJointType", joint_type)
    THEN "ChLinkLockRevolute"
    ELSE IF In("Slider", joint_type) \/ In("SliderJointType", joint_type)
    THEN "ChLinkLockPrismatic"
    ELSE IF In("Rigid", joint_type) \/ In("RigidJointType", joint_type)
    THEN "ChLinkLockLock"
    ELSE "None"

JointClass(joint_type) ==
    IF In("Revolute", joint_type) \/ In("RevoluteJointType", joint_type)
    THEN "ChLinkLockRevolute"
    ELSE IF In("Rigid", joint_type) \/ In("RigidJointType", joint_type)
    THEN "ChLinkLockLock"
    ELSE IF In("Slider", joint_type) \/ In("SliderJointType", joint_type)
    THEN "ChLinkLockPrismatic"
    ELSE "None"

\* create_joint_from_data, up to system.Add(joint): the link it builds, if any.
create_joint_from_data(joint_data, bmap) ==
    LET joint_type == Get(joint_data, "type", Str(""))
        bodies == ResolveBodies(joint_data, bmap)
    IN  IF ~bodies.found THEN [made |-> FALSE]
        ELSE LET origin_pos == OriginPos(joint_data)
                 class == JointClass(joint_type)
             IN  IF class = "None" THEN [made |-> FALSE]
                 ELSE [made |-> TRUE,
                       link |-> [class |-> class,
                                 body_one |-> bodies.one,
                                 body_two |-> bodies.two,
                                 pos |-> origin_pos,
                                 name |-> Get(joint_data, "name", Str(""))]]

\* The records a loop over model_data.get(key, []) visits.
LoopItems(d, key) == Items(Get(d, key, List(<< >>)))

\* Lines 41-57: availability check, open, json.load, the empty system and
\* the empty body_map, and the start of the body loop.
LoadOpen ==
    /\ pc = "load"
    /\ IF ~pychrono_available
       THEN /\ result' = Raise("ImportError")
            /\ pc' = "done"
            /\ UNCHANGED <<data, opens>>
       ELSE /\ opens' = opens + 1
            /\ LET o == OpenOutcome(file)
                   l == JsonLoadOutcome(file)
               IN  IF o.kind = "raise"
                   THEN result' = o /\ pc' = "done" /\ data' = data
                   ELSE IF l.kind = "raise"
                   THEN result' = l /\ pc' = "done" /\ data' = data
                   ELSE /\ data' = l.value
                        /\ IF l.value.t # "obj"
                           THEN result' = Raise("AttributeError") /\ pc' = "done"
                           ELSE IF ~Iterable(Get(l.value, "bodies", List(<< >>)))
                           THEN result' = Raise("TypeError") /\ pc' = "done"
                           ELSE result' = result /\ pc' = "load_bodies"
    /\ UNCHANGED <<json_path, file, convVars, toolVars, pychrono_available, system_bodies,
                   system_links, body_map, bodies_done, joints_done>>

\* Mutant: a name already in body_map keeps its first body.
LoadBodyFirstWins ==
    /\ pc = "load_bodies"
    /\ bodies_done < Len(LoopItems(data, "bodies"))
    /\ LET body_data == LoopItems(data, "bodies")[bodies_done + 1]
           made == create_body_from_data(body_data)
       IN  IF made.kind = "raise"
           THEN /\ result' = made
                /\ pc' = "done"
                /\ UNCHANGED <<system_bodies, body_map, bodies_done>>
           ELSE /\ system_bodies' = Append(system_bodies, made.value)
                /\ body_map' = [k \in DOMAIN body_map \cup {body_data.v.name} |->
                                  IF k \notin DOMAIN body_map
                                  THEN Len(system_bodies) + 1
                                  ELSE body_map[k]]
                /\ bodies_done' = bodies_done + 1
                /\ UNCHANGED <<result, pc>>
    /\ UNCHANGED <<json_path, file, data, opens, convVars, toolVars, pychrono_available,
                   system_links, joints_done>>

\* One iteration of the body loop (lines 58-61).
LoadBody ==
    /\ pc = "load_bodies"
    /\ bodies_done < Len(LoopItems(data, "bodies"))
    /\ LET body_data == LoopItems(data, "bodies")[bodies_done + 1]
           made == create_body_from_data(body_data)
       IN  IF made.kind = "raise"
           THEN /\ result' = made
                /\ pc' = "done"
                /\ UNCHANGED <<system_bodies, body_map, bodies_done>>
           ELSE /\ system_bodies' = Append(system_bodies, made.value)
                /\ body_map' = [k \in DOMAIN body_map \cup {body_data.v.name} |->
                                  IF k = body_data.v.name
                                  THEN Len(system_bodies) + 1
                                  ELSE body_map[k]]
                /\ bodies_done' = bodies_done + 1
                /\ UNCHANGED <<result, pc>>
    /\ UNCHANGED <<json_path, file, data, opens, convVars, toolVars, pychrono_available,
                   system_links, joints_done>>

\* The body loop ends and the joint loop starts (line 64).
LoadBodiesEnd ==
    /\ pc = "load_bodies"
    /\ bodies_done = Len(LoopItems(data, "bodies"))
    /\ IF ~Iterable(Get(data, "joints", List(<< >>)))
       THEN result' = Raise("TypeError") /\ pc' = "done"
       ELSE result' = result /\ pc' = "load_joints"
    /\ UNCHANGED <<json_path, file, data, opens, convVars, toolVars, loadVars>>

\* One iteration of the joint loop (lines 64-65).
LoadJoint ==
    /\ pc = "load_joints"
    /\ joints_done < Len(LoopItems(data, "joints"))
    /\ LET joint_data == LoopItems(data, "joints")[joints_done + 1]
           made == create_joint_from_data(joint_data, body_map)
       IN  system_links' = IF made.made THEN Append(system_links, made.link)
                           ELSE system_links
    /\ joints_done' = joints_done + 1
    /\ UNCHANGED <<pc, json_path, file, data, result, opens, convVars, toolVars,
                   pychrono_available, system_bodies, body_map, bodies_done>>

\* return system (line 67)
LoadReturn ==
    /\ pc = "load_joints"
    /\ joints_done = Len(LoopItems(data, "joints"))
    /\ result' = Ret("system")
    /\ pc' = "done"
    /\ UNCHANGED <<json_path, file, data, opens, convVars, toolVars, loadVars>>

(***************************************************************************)
(* Inputs of the loader                                                    *)
(***************************************************************************)
MaxBodies == 2
MaxJoints == 2

Mm(x, y, z) == Obj([x |-> Num(Whole(x)), y |-> Num(Whole(y)), z |-> Num(Whole(z))])

LoadBodyRecords ==
    { Obj([name |-> Str("A")]),
      Obj([name |-> Str("A"), mass_properties |-> EmptyDict,
           transform |-> Obj([translation |-> Mm(4000, 5000, 6000)]),
           geometry_file |-> Str("A.stl")]),
      Obj([name |-> Str("A"),
           mass_properties |-> Obj([mass |-> Num(R(5, 2)),
                                    center_of_mass |-> Mm(1000, 2000, -3000)])]),
      Obj([name |-> Str("A"),
           mass_properties |->
               Obj([center_of_mass |-> Obj([x |-> Num(Whole(500))]),
                    moments_of_inertia |-> Obj([xx |-> Num(Whole(2)),
                                                zz |-> Num(Whole(3))])]),
           transform |-> Obj([translation |-> Obj([y |-> Num(Whole(1500))])])]),
      Obj([name |-> Str("B"),
           mass_properties |-> Obj([mass |-> Num(R(7, 2)),
                                    moments_of_inertia |-> EmptyDict]),
           transform |-> EmptyDict,
           geometry_file |-> Str("B.stl"),
           is_fixed |-> Bool(TRUE)]),
      Obj([name |-> Str("B"),
           mass_properties |->
               Obj([center_of_mass |-> EmptyDict,
                    moments_of_inertia |-> Obj([xx |-> Num(Whole(2)),
                                                yy |-> Num(Whole(3)),
                                                zz |-> Num(Whole(4))])])]),
      Obj([name |-> Str("B"),
           mass_properties |-> Obj([mass |-> Num(R(7, 2)),
                                    center_of_mass |-> Mm(1000, 2000, -3000)]),
           transform |-> Obj([translation |-> Mm(4000, 5000, 6000)])]),
      Obj([mass_properties |-> Obj([mass |-> Num(Whole(1))])]) }

JointRecord(type, one, two) ==
    Obj([name |-> Str("J"), type |-> Str(type), body_one |-> Str(one), body_two |-> Str(two)])

LoadJointRecords ==
    { Obj([name |-> Str("J"), type |-> Str("RevoluteJointType"),
           body_one |-> Str("A"), body_two |-> Str("B"),
           origin |-> Mm(1000, 2000, 3000)]),
      Obj([type |-> Str("Revolute"), body_one |-> Str("A"), body_two |-> Str("B"),
           origin |-> Obj([y |-> Num(Whole(500))])]),
      Obj([name |-> Str("K"), type |-> Str("RigidJointType"),
           body_one |-> Str("B"), body_two |-> Str("A"), origin |-> EmptyDict]),
      JointRecord("SliderJointType", "A", "B"),
      JointRecord("revoluteJointType", "A", "B"),
      Obj([name |-> Str("J"), body_one |-> Str("A"), body_two |-> Str("B")]),
      JointRecord("SliderRigid", "A", "B"),
      JointRecord("RigidRevolute", "B", "A"),
      JointRecord("RigidJointType", "A", "A"),
      Obj([name |-> Str("J"), type |-> Str("RevoluteJointType"), body_two |-> Str("B")]),
      JointRecord("RevoluteJointType", "A", ""),
      JointRecord("RigidJointType", "C", "B") }

InitLoadFile ==
    \/ \E s \in {"missing", "malformed"} : file = [state |-> s, doc |-> NoDoc]
    \/ \E d \in OtherDocuments \cup {Document({"model_name"}, Null, Null),
                                     Document(FieldSet, Null, List(<< >>)),
                                     Document(FieldSet, List(<< >>), Null)} :
          file = [state |-> "parsed", doc |-> d]
    \/ \E b \in SeqsUpTo(LoadBodyRecords, MaxBodies),
          q \in SeqsUpTo(LoadJointRecords, MaxJoints) :
          file = [state |-> "parsed", doc |-> Document(FieldSet, List(b), List(q))]

InitLoad ==
    /\ pc = "load"
    /\ json_path = "model_pychrono.json"
    /\ \/ pychrono_available = FALSE /\ file = [state |-> "missing", doc |-> NoDoc]
       \/ pychrono_available = TRUE /\ InitLoadFile
    /\ data = NoDoc
    /\ result = NoResult
    /\ opens = 0
    /\ system_bodies = << >>
    /\ system_links = << >>
    /\ body_map = << >>
    /\ bodies_done = 0
    /\ joints_done = 0
    /\ ConvIdle
    /\ ToolIdle

NextLoad == LoadOpen \/ LoadBody \/ LoadBodiesEnd \/ LoadJoint \/ LoadReturn

SpecLoad == InitLoad /\ [][NextLoad]_vars

(***************************************************************************)
(* Properties of load_model_from_json                                      *)
(***************************************************************************)
\* The loaded file holds a document object with a list of bodies and a list
\* of joints.
LoadedLists ==
    /\ ParsedObject /\ HasAllFields(file.doc)
    /\ file.doc.v.bodies.t = "list" /\ file.doc.v.joints.t = "list"

DocBodies == file.doc.v.bodies.v
DocJoints == file.doc.v.joints.v

Field(rec, k) == rec.v[k]
Has(rec, k) == k \in DOMAIN rec.v

\* A component of a joint record's origin in millimeters, 0 when the origin or
\* the component is absent.
OriginMm(jr, axis) ==
    IF Has(jr, "origin") /\ Has(Field(jr, "origin"), axis)
    THEN Field(Field(jr, "origin"), axis).v
    ELSE Whole(0)

\* C7: for bodies named "A" and "B" and a single joint record of a Revolute
\* type with body_one "A" and body_two "B", the loaded system holds exactly
\* one link: a revolute link between the bodies registered as "A" and "B",
\* at origin/1000 on each axis (0 for an absent origin or component).
C7_RevoluteJointLoaded ==
    (/\ pc = "done" /\ pychrono_available /\ LoadedLists
     /\ Len(DocBodies) = 2 /\ Len(DocJoints) = 1
     /\ \A k \in 1..2 : Has(DocBodies[k], "name")
     /\ {Field(DocBodies[k], "name") : k \in 1..2} = {Str("A"), Str("B")}
     /\ Has(DocJoints[1], "type")
     /\ Field(DocJoints[1], "type") \in {Str("Revolute"), Str("RevoluteJointType")}
     /\ Has(DocJoints[1], "body_one") /\ Field(DocJoints[1], "body_one") = Str("A")
     /\ Has(DocJoints[1], "body_two") /\ Field(DocJoints[1], "body_two") = Str("B"))
    =>
        /\ result = Ret("system")
        /\ Len(system_bodies) = 2
        /\ Len(system_links) = 1
        /\ system_links[1].class = "ChLinkLockRevolute"
        /\ system_links[1].body_one = body_map[Str("A")]
        /\ system_links[1].body_two = body_map[Str("B")]
        /\ system_bodies[system_links[1].body_one].name = Str("A")
        /\ system_bodies[system_links[1].body_two].name = Str("B")
        /\ RMul(system_links[1].pos[1], Whole(1000)) = OriginMm(DocJoints[1], "x")
        /\ RMul(system_links[1].pos[2], Whole(1000)) = OriginMm(DocJoints[1], "y")
        /\ RMul(system_links[1].pos[3], Whole(1000)) = OriginMm(DocJoints[1], "z")

\* Bodies B then A and a Revolute joint with origin {y: 500} were loaded: one
\* link from entity 2 (A) to entity 1 (B) at (0, 0.5, 0).
C7_Witness ==
    /\ pc = "done" /\ LoadedLists
    /\ Len(DocBodies) = 2 /\ Len(DocJoints) = 1
    /\ Has(DocBodies[1], "name") /\ Field(DocBodies[1], "name") = Str("B")
    /\ Has(DocBodies[2], "name") /\ Field(DocBodies[2], "name") = Str("A")
    /\ Has(DocJoints[1], "type") /\ Field(DocJoints[1], "type") = Str("Revolute")
    /\ result = Ret("system")
    /\ Len(system_links) = 1
    /\ system_links[1].class = "ChLinkLockRevolute"
    /\ system_links[1].body_one = 2 /\ system_links[1].body_two = 1
    /\ system_links[1].pos = <<Whole(0), R(1, 2), Whole(0)>>

\* The names the body records of the document carry.
DocBodyNames == {Field(DocBodies[k], "name") : k \in {k \in DOMAIN DocBodies : Has(DocBodies[k], "name")}}

\* A joint record whose body_one or body_two is absent, empty or names no
\* body of the document.
Dangling(jr) ==
    \E side \in {"body_one", "body_two"} :
        \/ ~Has(jr, side)
        \/ Field(jr, side) \in {Str(""), Null}
        \/ Field(jr, side) \notin DocBodyNames

\* C8: a joint record whose body_one or body_two is absent, empty or no key
\* of the name table adds no link and raises nothing: the links never
\* outnumber the joint records consumed that are not dangling, no exception
\* arises in the joint loop, and the load returns the system after visiting
\* every joint record.
C8_DanglingJointSkipped ==
    (pychrono_available /\ LoadedLists) =>
        /\ Len(system_links)
              <= Cardinality({k \in 1..joints_done : ~Dangling(DocJoints[k])})
        /\ Len(system_links) <= Len(DocJoints)
        /\ result.kind = "raise" => joints_done = 0 /\ pc = "done"
        /\ (pc = "done" /\ result.kind = "return") => joints_done = Len(DocJoints)
        /\ (pc = "done" /\ \A k \in DOMAIN DocBodies : Has(DocBodies[k], "name")) =>
              result = Ret("system")

\* A load returned after a joint naming the unknown body "C" and a joint
\* without body_one: the system holds no link.
C8_Witness ==
    /\ pc = "done" /\ LoadedLists
    /\ result = Ret("system")
    /\ Len(DocBodies) = 2 /\ DocBodyNames = {Str("A"), Str("B")}
    /\ Len(DocJoints) = 2
    /\ Has(DocJoints[1], "body_one") /\ Field(DocJoints[1], "body_one") = Str("C")
    /\ ~Has(DocJoints[2], "body_one")
    /\ joints_done = 2
    /\ system_links = << >>

Filled(rec, k) == Has(rec, k) /\ DOMAIN Field(rec, k).v # {}

\* C9: a body record without mass_properties, or with an empty one, is
\* loaded with mass 1.0 and inertia diagonal (1, 1, 1); with mass_properties
\* that state no mass it gets mass 1.0; with moments_of_inertia that miss an
\* axis it gets 1.0 on that axis.
C9_BodyDefaults ==
    (pychrono_available /\ LoadedLists) =>
        \A k \in 1..Len(system_bodies) :
            LET rec == DocBodies[k]
                body == system_bodies[k]
                axes == <<"xx", "yy", "zz">>
            IN  /\ ~Filled(rec, "mass_properties") =>
                      /\ body.mass = Whole(1)
                      /\ body.inertia = <<Whole(1), Whole(1), Whole(1)>>
                /\ (Filled(rec, "mass_properties")
                      /\ ~Has(Field(rec, "mass_properties"), "mass")) =>
                      body.mass = Whole(1)
                /\ (Filled(rec, "mass_properties")
                      /\ Filled(Field(rec, "mass_properties"), "moments_of_inertia")) =>
                      \A a \in 1..3 :
                         LET moi == Field(Field(rec, "mass_properties"), "moments_of_inertia")
                         IN  body.inertia[a]
                               = IF Has(moi, axes[a]) THEN Field(moi, axes[a]).v ELSE Whole(1)

\* A record without mass_properties and a record whose mass_properties state
\* no mass and whose moments_of_inertia miss yy were both loaded.
C9_Witness ==
    /\ pc = "done" /\ LoadedLists /\ result = Ret("system")
    /\ Len(system_bodies) = 2
    /\ ~Has(DocBodies[1], "mass_properties")
    /\ system_bodies[1].mass = Whole(1)
    /\ Filled(DocBodies[2], "mass_properties")
    /\ ~Has(Field(DocBodies[2], "mass_properties"), "mass")
    /\ DOMAIN Field(Field(DocBodies[2], "mass_properties"), "moments_of_inertia").v
          = {"xx", "zz"}
    /\ system_bodies[2].mass = Whole(1)
    /\ system_bodies[2].inertia = <<Whole(2), Whole(1), Whole(3)>>

(***************************************************************************)
(* utils.py: the command-line entry point                                  *)
(***************************************************************************)
\* str.lower() on the command words the model passes.
Lower(w) ==
    CASE w = "VALIDATE" -> "validate"
      [] w = "Validate" -> "validate"
      [] w = "Summary" -> "summary"
      [] OTHER -> w

\* sys.exit(code): the process ends with the code after printing the lines.
Exit(code, lines) ==
    /\ pc' = "exited"
    /\ exit_code' = code
    /\ printed' = printed \o lines

\* create_export_config: open(output_path, 'w') either fails, and the
\* uncaught OSError ends the process with status 1, or the file is written.
CreateExportConfig(writable) ==
    IF writable
    THEN /\ Exit(0, << <<"Configuration file created: ">> >>)
    ELSE /\ Exit(1, << <<"Traceback: ", "OSError">> >>)

\* Mutant: the invalid branch prints and does not call sys.exit(1).
CliValidateExitAlwaysZero ==
    /\ pc = "done"
    /\ Lower(argv[2]) = "validate"
    /\ result.kind = "return"
    /\ Exit(0, << <<"Export file checked">> >>)
    /\ UNCHANGED <<argv, fileVars, convVars, loadVars, uiVars, cableVars, exportVars>>

\* Lines 196-223, 232-245: the banner, the usage exit, the dispatch on the
\* lower-cased command, and the commands that do not read a model file.
CliMain ==
    /\ pc = "main"
    /\ IF Len(argv) < 2
       THEN /\ Exit(1, << <<"Usage:">> >>)
            /\ UNCHANGED fileVars
       ELSE LET command == Lower(argv[2]) IN
            CASE command \in {"validate", "summary"} ->
                    IF Len(argv) < 3
                    THEN /\ Exit(1, << <<"Error: Please provide JSON file path">> >>)
                         /\ UNCHANGED fileVars
                    ELSE /\ pc' = command
                         /\ json_path' = argv[3]
                         /\ UNCHANGED <<file, data, result, opens, exit_code, printed>>
              [] command = "config" ->
                    /\ \E writable \in BOOLEAN : CreateExportConfig(writable)
                    /\ UNCHANGED fileVars
              [] OTHER ->
                    /\ Exit(0, << <<"Error: Unknown command '", command, "'">> >>)
                    /\ UNCHANGED fileVars
    /\ UNCHANGED <<argv, convVars, loadVars, uiVars, cableVars, exportVars>>

\* Lines 224-230: validate_json_export has returned (is_valid, message).
CliValidateExit ==
    /\ pc = "done"
    /\ Lower(argv[2]) = "validate"
    /\ result.kind = "return"
    /\ IF result.value[1]
       THEN Exit(0, << <<"Valid export file: ", json_path>> >>)
       ELSE Exit(1, << <<"Invalid export file: ">> \o result.value[2] >>)
    /\ UNCHANGED <<argv, fileVars, convVars, loadVars, uiVars, cableVars, exportVars>>

\* Lines 132-157, 238: print_model_summary prints the error or the summary;
\* the script then ends normally.
CliSummaryExit ==
    /\ pc = "done"
    /\ Lower(argv[2]) = "summary"
    /\ result.kind = "return"
    /\ IF "error" \in DOMAIN result.value
       THEN Exit(0, << <<"Error reading model: ", result.value.error>> >>)
       ELSE Exit(0, << <<"Model Summary">> >>)
    /\ UNCHANGED <<argv, fileVars, convVars, loadVars, uiVars, cableVars, exportVars>>

CommandWords == {"validate", "VALIDATE", "summary", "config", "export"}

\* sys.argv: the script name, then at most a command and a path.
ArgvValues ==
    { <<"utils.py">> }
      \cup { <<"utils.py", c>> : c \in CommandWords }
      \cup { <<"utils.py", c, "model_pychrono.json">> : c \in CommandWords }

InitCli ==
    /\ pc = "main"
    /\ argv \in ArgvValues
    /\ exit_code = NoExit
    /\ printed = << >>
    /\ json_path = "-"
    /\ IF Len(argv) = 3 /\ Lower(argv[2]) = "validate" THEN InitFile
       ELSE IF Len(argv) = 3 /\ Lower(argv[2]) = "summary" THEN InitSummaryFile
       ELSE file = [state |-> "missing", doc |-> NoDoc]
    /\ data = NoDoc
    /\ result = NoResult
    /\ opens = 0
    /\ ConvIdle /\ LoadIdle /\ UiIdle /\ CableIdle /\ ExportIdle

NextCli ==
    \/ CliMain
    \/ ValidateOpen \/ ValidateLoad \/ ValidateCheck
    \/ SummaryOpen \/ SummaryLoad \/ SummaryBuild
    \/ CliValidateExit
    \/ CliSummaryExit

SpecCli == InitCli /\ [][NextCli]_vars

\* What validate_json_export reports for the file: the code's own checks
\* restated on the file, independently of the run.
FileValid ==
    /\ file.state = "parsed"
    /\ LET out == ValidateStructure(file.doc)
       IN  out.kind = "return" /\ out.value[1]

ValidateCommand == Len(argv) >= 2 /\ Lower(argv[2]) = "validate"

\* C11: the validate subcommand ends with exit code 1 when the path is
\* omitted and when validate_json_export reports the file invalid or
\* missing, and with exit code 0 when it reports the file valid.
C11_ValidateExitCode ==
    (pc = "exited" /\ ValidateCommand) =>
        /\ exit_code \in {0, 1}
        /\ Len(argv) < 3 => exit_code = 1
        /\ Len(argv) >= 3 =>
              /\ result.kind = "return"
              /\ result.value[1] = FALSE => exit_code = 1
              /\ result.value[1] = TRUE => exit_code = 0
              /\ file.state = "missing" => exit_code = 1
              /\ exit_code = 0 <=> FileValid

\* validate ended with status 1 for a missing file and printed the
\* validator's message.
C11_Witness ==
    /\ pc = "exited" /\ ValidateCommand /\ Len(argv) = 3
    /\ file.state = "missing"
    /\ result = Ret(<<FALSE, <<"File not found: ", argv[3]>> >>)
    /\ exit_code = 1
    /\ printed = << <<"Invalid export file: ", "File not found: ", argv[3]>> >>

(***************************************************************************)
(* CableExport.py: run                                                     *)
(***************************************************************************)
\* Text is a sequence of one-character strings; the header is kept as one
\* piece.
Digit(d) ==
    CASE d = 0 -> "0" [] d = 1 -> "1" [] d = 2 -> "2" [] d = 3 -> "3" [] d = 4 -> "4"
      [] d = 5 -> "5" [] d = 6 -> "6" [] d = 7 -> "7" [] d = 8 -> "8" [] d = 9 -> "9"

\* The decimal digits of a natural number.
RECURSIVE IntChars(_)
IntChars(n) == IF n < 10 THEN <<Digit(n)>> ELSE IntChars(n \div 10) \o <<Digit(n % 10)>>

\* repr() of the float r, for a value with at most two decimal places: the
\* shortest decimal text, with at least one digit after the point.
FloatRepr(r) ==
    LET h == (Abs(r.num) * 100) \div r.den
        f == h % 100
    IN  (IF r.num < 0 THEN <<"-">> ELSE << >>)
           \o IntChars(h \div 100) \o <<".">>
           \o (IF f % 10 = 0 THEN <<Digit(f \div 10)>> ELSE <<Digit(f \div 10), Digit(f % 10)>>)

RECURSIVE JoinCells(_)
JoinCells(cells) ==
    IF Len(cells) = 1 THEN cells[1]
    ELSE cells[1] \o <<",">> \o JoinCells(Tail(cells))

HeaderLine == <<"StartX,StartY,StartZ,EndX,EndY,EndZ">>

\* Mutant: the coordinates are divided by 10.
CentimetersToMetersByTen(x) == RDiv(Whole(x), Whole(10))

\* Lines 52-58: coordinate / 100.0
CentimetersToMeters(x) == RDiv(Whole(x), Whole(100))

\* Lines 48-61: the text of the row written for a sketch line.
RowLine(entity) ==
    JoinCells([k \in 1..6 |->
        FloatRepr(CentimetersToMeters(IF k <= 3 THEN entity.start[k]
                                                ELSE entity.end[k - 3]))])

\* Lines 18-33: the selection check and the save dialog.
CableStart ==
    /\ pc = "cable"
    /\ IF Len(selection) = 0
       THEN /\ messages' = Append(messages,
                  <<"Error: Please first select the cable lines in the sketch!">>)
            /\ pc' = "finished"
       ELSE IF ~dialog_ok
       THEN /\ pc' = "finished"
            /\ messages' = messages
       ELSE /\ pc' = "cable_open"
            /\ messages' = messages
    /\ UNCHANGED <<dialog_ok, cableVars, fileVars, convVars, loadVars, cliVars, exportVars>>

\* Lines 36-39, 66-68: count = 0, open(filename, 'w') and the header; a
\* failing open is caught by the bare except, which shows the traceback.
CableOpen ==
    /\ pc = "cable_open"
    /\ count' = 0
    /\ IF csv_writable
       THEN /\ csv_lines' = <<HeaderLine>>
            /\ pc' = "cable_rows"
            /\ messages' = messages
       ELSE /\ csv_lines' = csv_lines
            /\ pc' = "finished"
            /\ messages' = Append(messages, <<"An error occurred:", "OSError">>)
    /\ UNCHANGED <<dialog_ok, selection, csv_writable, sel_done, fileVars, convVars,
                   loadVars, cliVars, exportVars>>

\* Lines 41-62: one iteration of the loop over the selection.
CableRow ==
    /\ pc = "cable_rows"
    /\ sel_done < Len(selection)
    /\ sel_done' = sel_done + 1
    /\ LET entity == selection[sel_done + 1]
       IN  IF entity.kind = "SketchLine"
           THEN /\ csv_lines' = Append(csv_lines, RowLine(entity))
                /\ count' = count + 1
           ELSE /\ UNCHANGED <<csv_lines, count>>
    /\ UNCHANGED <<pc, selection, csv_writable, fileVars, convVars, loadVars, cliVars,
                   uiVars, exportVars>>

\* Lines 63-64: the file is closed and the count reported.
CableFinish ==
    /\ pc = "cable_rows"
    /\ sel_done = Len(selection)
    /\ messages' = Append(messages,
          <<"Success! Coordinates of ">> \o IntChars(count) \o <<" cables exported to:">>)
    /\ pc' = "finished"
    /\ UNCHANGED <<dialog_ok, cableVars, fileVars, convVars, loadVars, cliVars, exportVars>>

MaxSelected == 3

\* Selectable entities: sketch lines with world coordinates in centimeters,
\* and entities of other types.
Entities ==
    { [kind |-> "SketchLine", start |-> <<100, 200, 300>>, end |-> <<400, 500, 600>>],
      [kind |-> "SketchLine", start |-> <<0, -50, 25>>, end |-> <<5, 1250, -1>>],
      [kind |-> "SketchCircle", start |-> <<0, 0, 0>>, end |-> <<0, 0, 0>>],
      [kind |-> "BRepBody", start |-> <<0, 0, 0>>, end |-> <<0, 0, 0>>] }

InitCable ==
    /\ pc = "cable"
    /\ \E n \in 0..MaxSelected : selection \in [1..n -> Entities]
    /\ dialog_ok \in BOOLEAN
    /\ csv_writable \in BOOLEAN
    /\ csv_lines = << >>
    /\ count = 0
    /\ sel_done = 0
    /\ messages = << >>
    /\ FileIdle /\ ConvIdle /\ LoadIdle /\ CliIdle /\ ExportIdle

NextCable == CableStart \/ CableOpen \/ CableRow \/ CableFinish

SpecCable == InitCable /\ [][NextCable]_vars

\* Reading a CSV row back: the cells between the commas, and the number a
\* cell's decimal text denotes.
RECURSIVE SplitCells(_, _)
SplitCells(line, cell) ==
    IF line = << >> THEN <<cell>>
    ELSE IF Head(line) = "," THEN <<cell>> \o SplitCells(Tail(line), << >>)
    ELSE SplitCells(Tail(line), Append(cell, Head(line)))

DigitVal(c) == CHOOSE d \in 0..9 : Digit(d) = c

RECURSIVE Pow10(_)
Pow10(k) == IF k = 0 THEN 1 ELSE 10 * Pow10(k - 1)

\* The digits of a cell with the point removed, read as a natural number.
RECURSIVE DigitsValue(_, _)
DigitsValue(chars, acc) ==
    IF chars = << >> THEN acc
    ELSE DigitsValue(Tail(chars),
                     IF Head(chars) = "." THEN acc ELSE 10 * acc + DigitVal(Head(chars)))

ParseDecimal(cell) ==
    LET neg == Head(cell) = "-"
        body == IF neg THEN Tail(cell) ELSE cell
        point == CHOOSE i \in 1..Len(body) : body[i] = "."
        n == DigitsValue(body, 0)
    IN  R(IF neg THEN -n ELSE n, Pow10(Len(body) - point))

IsSketchLine(entity) == entity.kind = "SketchLine"

\* The sketch lines among the selected entities consumed so far, in
\* selection order.
LinesConsumed == SelectSeq(SubSeq(selection, 1, sel_done), IsSketchLine)

SixCoordinates(entity) == entity.start \o entity.end

\* C12: the CSV file starts with the header line, followed by exactly one
\* row per selected sketch line, in selection order and skipping every other
\* entity; the six cells of a row read back as the start and end world
\* coordinates divided by 100 (the segment (100,200,300)/(400,500,600) gives
\* 1.0,2.0,3.0,4.0,5.0,6.0), and the reported count is the number of rows.
C12_CableCsv ==
    csv_lines # << >> =>
        /\ csv_lines[1] = HeaderLine
        /\ Len(csv_lines) = 1 + Len(LinesConsumed)
        /\ count = Len(csv_lines) - 1
        /\ \A k \in 1..Len(LinesConsumed) :
              LET cells == SplitCells(csv_lines[k + 1], << >>)
                  coords == SixCoordinates(LinesConsumed[k])
              IN  /\ Len(cells) = 6
                  /\ \A c \in 1..6 :
                        RMul(ParseDecimal(cells[c]), Whole(100)) = Whole(coords[c])
                  /\ coords = <<100, 200, 300, 400, 500, 600>> =>
                        csv_lines[k + 1] = <<"1", ".", "0", ",", "2", ".", "0", ",",
                                             "3", ".", "0", ",", "4", ".", "0", ",",
                                             "5", ".", "0", ",", "6", ".", "0">>
        /\ pc = "finished" =>
              /\ sel_done = Len(selection)
              /\ messages = << <<"Success! Coordinates of ">>
                                 \o IntChars(Len(csv_lines) - 1)
                                 \o <<" cables exported to:">> >>

\* A sketch line, a circle and a second sketch line were selected: the file
\* holds the header and two rows, and two cables are reported.
C12_Witness ==
    /\ pc = "finished"
    /\ Len(selection) = 3
    /\ selection[1].kind = "SketchLine" /\ selection[1].start = <<100, 200, 300>>
    /\ selection[2].kind = "SketchCircle"
    /\ selection[3].kind = "SketchLine" /\ selection[3].start = <<0, -50, 25>>
    /\ Len(csv_lines) = 3
    /\ csv_lines[3] = <<"0", ".", "0", ",", "-", "0", ".", "5", ",", "0", ".", "2", "5", ",",
                        "0", ".", "0", "5", ",", "1", "2", ".", "5", ",",
                        "-", "0", ".", "0", "1">>
    /\ messages = << <<"Success! Coordinates of ", "2", " cables exported to:">> >>

(***************************************************************************)
(* Position, joint classification and the two passes of the loader         *)
(***************************************************************************)
\* The center_of_mass of a body record, when mass_properties and it are
\* present and not empty.
HasCenterOfMass(rec) ==
    Filled(rec, "mass_properties") /\ Filled(Field(rec, "mass_properties"), "center_of_mass")

HasTranslation(rec) ==
    Filled(rec, "transform") /\ Filled(Field(rec, "transform"), "translation")

\* pos is the millimeter vector d divided by 1000, absent components being 0.
IsMeters(pos, d) ==
    /\ RMul(pos[1], Whole(1000)) = (IF Has(d, "x") THEN Field(d, "x").v ELSE Whole(0))
    /\ RMul(pos[2], Whole(1000)) = (IF Has(d, "y") THEN Field(d, "y").v ELSE Whole(0))
    /\ RMul(pos[3], Whole(1000)) = (IF Has(d, "z") THEN Field(d, "z").v ELSE Whole(0))

\* C13: the position of a loaded body is center_of_mass/1000 if
\* center_of_mass is present, transform.translation/1000 only otherwise, and
\* the engine default when neither is present.
C13_CenterOfMassFirst ==
    (pychrono_available /\ LoadedLists) =>
        \A k \in 1..Len(system_bodies) :
            LET rec == DocBodies[k]
                pos == system_bodies[k].pos
            IN  IF HasCenterOfMass(rec)
                THEN IsMeters(pos, Field(Field(rec, "mass_properties"), "center_of_mass"))
                ELSE IF HasTranslation(rec)
                THEN IsMeters(pos, Field(Field(rec, "transform"), "translation"))
                ELSE pos = ChBody.pos

\* The fixed order of the classification and the link each word gives.
ClassOrder ==
    << <<"Revolute", "ChLinkLockRevolute">>,
       <<"Rigid", "ChLinkLockLock">>,
       <<"Slider", "ChLinkLockPrismatic">> >>

\* The characters of a joint record's type, none for an absent type.
TypeText(jr) == IF Has(jr, "type") THEN Spell(Field(jr, "type").v) ELSE << >>

\* The positions of ClassOrder whose word occurs in the type.
Matching(jr) == {i \in 1..Len(ClassOrder) : Contains(TypeText(jr), Spell(ClassOrder[i][1]))}

\* The link classes the first n joint records give: none for a dangling
\* record or a type without a match, else the class of the first match.
RECURSIVE ExpectedClasses(_)
ExpectedClasses(n) ==
    IF n = 0 THEN << >>
    ELSE LET jr == DocJoints[n]
             first == CHOOSE i \in Matching(jr) : \A j \in Matching(jr) : i <= j
         IN  IF Dangling(jr) \/ Matching(jr) = {}
             THEN ExpectedClasses(n - 1)
             ELSE Append(ExpectedClasses(n - 1), ClassOrder[first][2])

\* C14: for joint records whose bodies resolve, the type is classified by
\* case-sensitive substring match in the order Revolute, Rigid, Slider, the
\* first match deciding; a matching record adds exactly one link of that
\* class, and a type that matches none (another letter case, an absent type)
\* adds no link and raises no error.
C14_JointTypeClassification ==
    (pychrono_available /\ LoadedLists) =>
        /\ Len(system_links) = Len(ExpectedClasses(joints_done))
        /\ \A i \in 1..Len(system_links) :
              system_links[i].class = ExpectedClasses(joints_done)[i]
        /\ joints_done > 0 => result.kind # "raise"
        /\ (pc = "done" /\ result.kind = "return") => joints_done = Len(DocJoints)

\* "SliderRigid" gave a lock link (Rigid is tried before Slider) and
\* "revoluteJointType" gave none.
C14_Witness ==
    /\ pc = "done" /\ LoadedLists /\ result = Ret("system")
    /\ Len(DocJoints) = 2
    /\ ~Dangling(DocJoints[1]) /\ ~Dangling(DocJoints[2])
    /\ Has(DocJoints[1], "type") /\ Field(DocJoints[1], "type") = Str("revoluteJointType")
    /\ Has(DocJoints[2], "type") /\ Field(DocJoints[2], "type") = Str("SliderRigid")
    /\ Len(system_links) = 1
    /\ system_links[1].class = "ChLinkLockLock"

\* The position of the last body record named n.
LastIndex(n) ==
    CHOOSE k \in DOMAIN DocBodies :
        /\ Has(DocBodies[k], "name") /\ Field(DocBodies[k], "name") = n
        /\ \A j \in DOMAIN DocBodies :
              (Has(DocBodies[j], "name") /\ Field(DocBodies[j], "name") = n) => j <= k

\* The bodies the links of the first n joint records connect: for a record
\* that is not dangling and has a matching type, the last body records that
\* carry the names in body_one and body_two.
RECURSIVE ExpectedEnds(_)
ExpectedEnds(n) ==
    IF n = 0 THEN << >>
    ELSE LET jr == DocJoints[n]
         IN  IF Dangling(jr) \/ Matching(jr) = {}
             THEN ExpectedEnds(n - 1)
             ELSE Append(ExpectedEnds(n - 1),
                         <<LastIndex(Field(jr, "body_one")), LastIndex(Field(jr, "body_two"))>>)

JointPassEntered ==
    pc = "load_joints" \/ joints_done > 0 \/ (pc = "done" /\ result.kind = "return")

\* The state of the two passes: one entity per consumed body record; no
\* joint before the body pass is over; in the joint pass the name table maps
\* every name of the document to the last record that carries it, and the
\* links connect the bodies the table names.
TwoPassState ==
    (pychrono_available /\ LoadedLists) =>
        /\ Len(system_bodies) = bodies_done
        /\ pc = "load_bodies" => joints_done = 0 /\ system_links = << >>
        /\ JointPassEntered =>
              /\ bodies_done = Len(DocBodies)
              /\ Len(system_bodies) = Len(DocBodies)
              /\ DOMAIN body_map = DocBodyNames
              /\ \A n \in DocBodyNames :
                    /\ body_map[n] = LastIndex(n)
                    /\ system_bodies[body_map[n]].name = n
              /\ Len(system_links) = Len(ExpectedEnds(joints_done))
              /\ \A i \in 1..Len(system_links) :
                    <<system_links[i].body_one, system_links[i].body_two>>
                        = ExpectedEnds(joints_done)[i]

\* C17: the loader runs two passes without feedback: every body record is
\* constructed, added and registered before the first joint record is
\* resolved, the joint pass changes neither the name table nor the bodies, a
\* joint resolves against a body wherever it stands in the list, the system
\* holds one entity per body record, and a name shared by several records
\* maps to the last of them.
C17_TwoPasses ==
    [][/\ TwoPassState
       /\ TwoPassState'
       /\ pc = "load_joints" => (body_map' = body_map /\ system_bodies' = system_bodies)
       /\ joints_done' > joints_done => bodies_done = Len(LoopItems(data, "bodies"))]_vars

\* Two body records named "A" and a joint from "A" to "A": two entities, the
\* table maps "A" to the second, and the link connects the second entity.
C17_Witness ==
    /\ pc = "done" /\ LoadedLists /\ result = Ret("system")
    /\ Len(DocBodies) = 2
    /\ \A k \in 1..2 : Has(DocBodies[k], "name") /\ Field(DocBodies[k], "name") = Str("A")
    /\ DocBodies[1] # DocBodies[2]
    /\ Len(DocJoints) = 1
    /\ Len(system_bodies) = 2
    /\ body_map[Str("A")] = 2
    /\ Len(system_links) = 1
    /\ system_links[1].body_one = 2 /\ system_links[1].body_two = 2

(***************************************************************************)
(* ExportToPyChrono.py: run, extract_model_data, extract_body_data,        *)
(* extract_joint_data                                                      *)
(***************************************************************************)
\* d[k] = v on a dict.
SetKey(d, k, v) == Obj([x \in DOMAIN d.v \cup {k} |-> IF x = k THEN v ELSE d.v[x]])

Vector(p) == Obj([x |-> Num(Whole(p[1])), y |-> Num(Whole(p[2])), z |-> Num(Whole(p[3]))])

\* Lines 136-164: the mass_properties of a body. props tells what
\* body.physicalProperties gives: nothing, an object whose reads raise, an
\* object whose getXYZMomentsOfInertia returns False, or a complete object.
MassPropertiesOf(body) ==
    LET basic == Obj([mass |-> Num(body.mass), volume |-> Num(Whole(8)),
                      area |-> Num(Whole(24)), density |-> Num(R(1, 4)),
                      center_of_mass |-> Vector(body.center)])
    IN  CASE body.props = "none" -> EmptyDict
          [] body.props = "raises" -> EmptyDict
          [] body.props = "no_moments" -> basic
          [] body.props = "complete" ->
                SetKey(basic, "moments_of_inertia",
                       Obj([xx |-> Num(Whole(2)), yy |-> Num(Whole(3)), zz |-> Num(Whole(4)),
                            xy |-> Num(Whole(0)), yz |-> Num(Whole(0)), xz |-> Num(Whole(0))]))

\* Lines 127-171: the record before the transform is considered.
BodyRecordBase(body) ==
    Obj([name |-> Str(body.name),
         is_visible |-> Bool(body.isVisible),
         mass_properties |-> MassPropertiesOf(body),
         material |-> IF body.material = "none" THEN Null
                      ELSE Obj([name |-> Str(body.material),
                                id |-> Str(body.material \o "-id")]),
         geometry_file |-> Str(body.name \o ".stl")])

\* Mutant: the transform is attached whether or not there is an occurrence.
extract_body_data_always_transform(body, occurrence) ==
    SetKey(BodyRecordBase(body), "transform",
           Obj([translation |-> Vector(occurrence.translation)]))

\* Lines 116-184. occurrence.present is FALSE for the None passed for a body
\* of the root component.
extract_body_data(body, occurrence) ==
    IF occurrence.present
    THEN SetKey(BodyRecordBase(body), "transform",
                Obj([translation |-> Vector(occurrence.translation)]))
    ELSE BodyRecordBase(body)

\* Lines 197-221.
extract_joint_data(joint) ==
    LET d0 == Obj([name |-> Str(joint.name),
                   type |-> Str(joint.type),
                   is_suppressed |-> Bool(joint.isSuppressed)])
        d1 == IF joint.occurrenceOne # "none"
              THEN SetKey(d0, "body_one", Str(joint.occurrenceOne)) ELSE d0
        d2 == IF joint.occurrenceTwo # "none"
              THEN SetKey(d1, "body_two", Str(joint.occurrenceTwo)) ELSE d1
    IN  IF joint.hasOrigin THEN SetKey(d2, "origin", Vector(joint.origin)) ELSE d2

NoOccurrence == [present |-> FALSE, name |-> "none", translation |-> <<0, 0, 0>>, bodies |-> << >>]

\* model_data['bodies'].append(body_data) / model_data['joints'].append(joint_data)
AppendTo(doc, key, rec) == SetKey(doc, key, List(Append(doc.v[key].v, rec)))

\* Lines 28-49, 79-89: the design check, the folder dialog and the empty
\* document.
ExportStart ==
    /\ pc = "export"
    /\ IF ~design.present
       THEN /\ messages' = Append(messages,
                  <<"No active design found. Please open a design first.">>)
            /\ pc' = "finished"
            /\ UNCHANGED <<model_data, cursor>>
       ELSE IF ~dialog_ok
       THEN /\ pc' = "finished"
            /\ UNCHANGED <<messages, model_data, cursor>>
       ELSE /\ model_data' = Obj([model_name |-> Str(design.name),
                                  bodies |-> List(<< >>),
                                  joints |-> List(<< >>),
                                  materials |-> List(<< >>),
                                  metadata |-> Obj([exported_from |-> Str("Autodesk Fusion 360"),
                                                    export_script |-> Str("ExportToPyChrono.py"),
                                                    units |-> Str("mm")])])
            /\ cursor' = <<1, 0>>
            /\ pc' = "extract_occurrences"
            /\ messages' = messages
    /\ UNCHANGED <<dialog_ok, design, output_file, fileVars, convVars, loadVars, cliVars,
                   cableVars>>

\* Lines 92-97: one body of the occurrence under the cursor.
ExtractOccurrenceBody ==
    /\ pc = "extract_occurrences"
    /\ cursor[1] <= Len(design.occurrences)
    /\ cursor[2] < Len(design.occurrences[cursor[1]].bodies)
    /\ LET occurrence == design.occurrences[cursor[1]]
           body == occurrence.bodies[cursor[2] + 1]
       IN  model_data' = IF body.isSolid
                         THEN AppendTo(model_data, "bodies", extract_body_data(body, occurrence))
                         ELSE model_data
    /\ cursor' = <<cursor[1], cursor[2] + 1>>
    /\ UNCHANGED <<pc, uiVars, design, output_file, fileVars, convVars, loadVars, cliVars,
                   cableVars>>

\* Line 92: the inner loop is over; the next occurrence, or the root bodies.
ExtractNextOccurrence ==
    /\ pc = "extract_occurrences"
    /\ \/ /\ cursor[1] <= Len(design.occurrences)
          /\ cursor[2] = Len(design.occurrences[cursor[1]].bodies)
          /\ cursor' = <<cursor[1] + 1, 0>>
          /\ pc' = pc
       \/ /\ cursor[1] > Len(design.occurrences)
          /\ cursor' = <<0, 0>>
          /\ pc' = "extract_root"
    /\ UNCHANGED <<uiVars, design, model_data, output_file, fileVars, convVars, loadVars,
                   cliVars, cableVars>>

\* Lines 100-104: one body of the root component, or the end of the loop.
ExtractRootBody ==
    /\ pc = "extract_root"
    /\ IF cursor[2] < Len(design.bodies)
       THEN /\ LET body == design.bodies[cursor[2] + 1]
               IN  model_data' = IF body.isSolid
                                 THEN AppendTo(model_data, "bodies",
                                               extract_body_data(body, NoOccurrence))
                                 ELSE model_data
            /\ cursor' = <<0, cursor[2] + 1>>
            /\ pc' = pc
       ELSE /\ cursor' = <<0, 0>>
            /\ pc' = "extract_joints"
            /\ model_data' = model_data
    /\ UNCHANGED <<uiVars, design, output_file, fileVars, convVars, loadVars, cliVars,
                   cableVars>>

\* Lines 107-111: one joint of rootComp.allJoints.
ExtractJoint ==
    /\ pc = "extract_joints"
    /\ cursor[2] < Len(design.joints)
    /\ model_data' = AppendTo(model_data, "joints",
                              extract_joint_data(design.joints[cursor[2] + 1]))
    /\ cursor' = <<0, cursor[2] + 1>>
    /\ UNCHANGED <<pc, uiVars, design, output_file, fileVars, convVars, loadVars, cliVars,
                   cableVars>>

\* Lines 54-65, 224-233: export_to_json writes the document, then the
\* geometries are exported and the success box is shown; a failing open is
\* caught by the bare except of run.
ExportWrite ==
    /\ pc = "extract_joints"
    /\ cursor[2] = Len(design.joints)
    /\ \E writable \in BOOLEAN :
          IF writable
          THEN /\ output_file' = model_data
               /\ messages' = Append(messages, <<"Export completed successfully!">>)
          ELSE /\ output_file' = output_file
               /\ messages' = Append(messages, <<"Failed:", "OSError">>)
    /\ pc' = "finished"
    /\ UNCHANGED <<dialog_ok, design, model_data, cursor, fileVars, convVars, loadVars,
                   cliVars, cableVars>>

MaxParts == 2
MaxExportJoints == 1

\* The bodies a component can hold: solid bodies and a surface body.
BRepBodies ==
    { [name |-> "Body1", isSolid |-> TRUE, isVisible |-> TRUE, props |-> "complete",
       mass |-> R(5, 2), center |-> <<10, 20, 30>>, material |-> "Steel"],
      [name |-> "Body2", isSolid |-> TRUE, isVisible |-> FALSE, props |-> "no_moments",
       mass |-> R(7, 2), center |-> <<0, 0, 0>>, material |-> "none"],
      [name |-> "Body1", isSolid |-> FALSE, isVisible |-> TRUE, props |-> "raises",
       mass |-> Whole(0), center |-> <<0, 0, 0>>, material |-> "none"] }

BodyLists == UNION {[1..n -> BRepBodies] : n \in 0..MaxParts}

Occurrence(n, t, bs) == [present |-> TRUE, name |-> n, translation |-> t, bodies |-> bs]

\* rootComp.allOccurrences: none, one, or "Arm:1" followed by "Base:1".
OccurrenceLists ==
    { << >> }
      \cup { <<Occurrence("Arm:1", <<100, 0, 0>>, bs)>> : bs \in BodyLists }
      \cup { <<Occurrence("Arm:1", <<100, 0, 0>>, bs[1]), Occurrence("Base:1", <<0, 0, 0>>, bs[2])>> :
                bs \in BodyLists \X BodyLists }

\* Joints between the occurrences, or between an occurrence and the root
\* component (occurrenceTwo is None).
DesignJoints ==
    { [name |-> "Rev1", type |-> "RevoluteJointType", isSuppressed |-> FALSE,
       occurrenceOne |-> "Arm:1", occurrenceTwo |-> "Base:1",
       hasOrigin |-> TRUE, origin |-> <<1, 2, 3>>],
      [name |-> "Rigid1", type |-> "RigidJointType", isSuppressed |-> TRUE,
       occurrenceOne |-> "Arm:1", occurrenceTwo |-> "none",
       hasOrigin |-> FALSE, origin |-> <<0, 0, 0>>] }

OccurrenceNames(occs) == {occs[i].name : i \in DOMAIN occs} \cup {"none"}

InitExport ==
    /\ pc = "export"
    /\ dialog_ok \in BOOLEAN
    /\ \/ design = [present |-> FALSE, name |-> "none", occurrences |-> << >>,
                    bodies |-> << >>, joints |-> << >>]
       \/ \E occs \in OccurrenceLists, bs \in BodyLists :
            \E n \in 0..MaxExportJoints :
               \E js \in [1..n -> DesignJoints] :
                  /\ \A i \in 1..n :
                        {js[i].occurrenceOne, js[i].occurrenceTwo} \subseteq OccurrenceNames(occs)
                  /\ design = [present |-> TRUE, name |-> "Robot", occurrences |-> occs,
                               bodies |-> bs, joints |-> js]
    /\ model_data = NoValue
    /\ cursor = <<0, 0>>
    /\ output_file = NoValue
    /\ messages = << >>
    /\ FileIdle /\ ConvIdle /\ LoadIdle /\ CliIdle /\ CableIdle

NextExport ==
    \/ ExportStart
    \/ ExtractOccurrenceBody
    \/ ExtractNextOccurrence
    \/ ExtractRootBody
    \/ ExtractJoint
    \/ ExportWrite

SpecExport == InitExport /\ [][NextExport]_vars

IsSolid(body) == body.isSolid

\* The solid bodies of the first n occurrences, in the order of the
\* occurrences and of their bodies.
RECURSIVE SolidOfOccurrences(_)
SolidOfOccurrences(n) ==
    IF n = 0 THEN << >>
    ELSE SolidOfOccurrences(n - 1) \o SelectSeq(design.occurrences[n].bodies, IsSolid)

SolidOfRoot == SelectSeq(design.bodies, IsSolid)

Extracting == model_data # NoValue

EmittedBodies == model_data.v.bodies.v

\* C15: extract_model_data emits exactly one body record for every solid
\* body of every occurrence and of the root component, and none for a body
\* that is not solid; a record has a transform field if and only if its body
\* was reached through an occurrence.
C15_OneRecordPerSolidBody ==
    Extracting =>
        LET fromOccurrences == SolidOfOccurrences(Len(design.occurrences))
            expected == fromOccurrences \o SolidOfRoot
        IN  /\ Len(EmittedBodies) <= Len(expected)
            /\ \A k \in 1..Len(EmittedBodies) :
                  /\ Field(EmittedBodies[k], "name") = Str(expected[k].name)
                  /\ Has(EmittedBodies[k], "transform") <=> k <= Len(fromOccurrences)
            /\ pc = "extract_occurrences" => Len(EmittedBodies) <= Len(fromOccurrences)
            /\ pc = "extract_root" => Len(EmittedBodies) >= Len(fromOccurrences)
            /\ pc \in {"extract_joints", "finished"} => Len(EmittedBodies) = Len(expected)
            /\ output_file # NoValue => output_file = model_data

\* An occurrence with a solid and a surface body and a root component with a
\* solid body were exported: two records, only the first with a transform.
C15_Witness ==
    /\ pc = "finished" /\ output_file # NoValue
    /\ Len(design.occurrences) = 1
    /\ Len(design.occurrences[1].bodies) = 2
    /\ design.occurrences[1].bodies[1].isSolid
    /\ ~design.occurrences[1].bodies[2].isSolid
    /\ Len(design.bodies) = 1 /\ design.bodies[1].isSolid
    /\ Len(output_file.v.bodies.v) = 2
    /\ Has(output_file.v.bodies.v[1], "transform")
    /\ ~Has(output_file.v.bodies.v[2], "transform")

\* C16: in every exported document the body names are unique, and the
\* body_one and body_two of every joint record, when present, are names of
\* body records of the document.
C16_JointsNameBodies ==
    output_file # NoValue =>
        LET bodies == output_file.v.bodies.v
            joints == output_file.v.joints.v
            names == {Field(bodies[k], "name") : k \in DOMAIN bodies}
        IN  /\ \A i, j \in DOMAIN bodies :
                  Field(bodies[i], "name") = Field(bodies[j], "name") => i = j
            /\ \A i \in DOMAIN joints :
                  /\ Has(joints[i], "body_one") => Field(joints[i], "body_one") \in names
                  /\ Has(joints[i], "body_two") => Field(joints[i], "body_two") \in names

====
